---- MODULE Spec2Model ----
(***************************************************************************)
(* Model of the incremental collection-and-enrichment pipeline of          *)
(* madrid-restaurants-data: the Entity Collector (src/src/places.ts), the  *)
(* Tabular Store it persists through (src/src/utils.ts), the Sentiment     *)
(* Enricher (src/src/sentiment.ts), the pipeline driver (main,             *)
(* src/src/utils.ts) and the Identifier Reconciler (src/unnamed/part_002). *)
(*                                                                         *)
(* Text is a sequence of tokens.  A token is one character (",", "\"",      *)
(* "\n", " ", "_", ".", "-", a letter, a digit) or an atom standing for a   *)
(* run of characters that holds no comma, double quote or newline, does    *)
(* not begin or end with white space and is not a numeric literal ("Ana",  *)
(* "2024-03-01", a word of a review).  An underscore inside an identifier  *)
(* is a token of its own; column names, which are never split, are atoms.  *)
(* A JavaScript value is a record [k, s, n]: k = "s" a string with text s,  *)
(* k = "n" the natural number n, k = "d" the number n/1000, k = "null"     *)
(* null, k = "undefined" undefined.                                        *)
(***************************************************************************)
EXTENDS Integers, Sequences, FiniteSets

----------------------------------------------------------------------------
(* JavaScript values and strings *)

Q == "\""
NL == "\n"
COMMA == ","
US == "_"

S(t) == [k |-> "s", s |-> t, n |-> 0]
N(i) == [k |-> "n", s |-> <<>>, n |-> i]
Null == [k |-> "null", s |-> <<>>, n |-> 0]
Undefined == [k |-> "undefined", s |-> <<>>, n |-> 0]

\* A number that is not a natural number is held in thousandths: Milli(800)
\* is 0.8, Milli(-600) is -0.6, Milli(2000) is the number 2.
Milli(x) == IF x >= 0 /\ x % 1000 = 0 THEN N(x \div 1000)
            ELSE [k |-> "d", s |-> <<>>, n |-> x]
Thousandths(v) == IF v.k = "n" THEN 1000 * v.n ELSE IF v.k = "d" THEN v.n ELSE 0

DigitChars == <<"0", "1", "2", "3", "4", "5", "6", "7", "8", "9">>
IsDigit(c) == \E i \in 1..10 : DigitChars[i] = c
DigitVal(c) == (CHOOSE i \in 1..10 : DigitChars[i] = c) - 1
IsSpace(c) == c \in {" ", "\t", "\n", "\r"}

\* String(n) for a natural number n
RECURSIVE NumStr(_)
NumStr(i) == IF i < 10 THEN <<DigitChars[i + 1]>>
             ELSE NumStr(i \div 10) \o <<DigitChars[(i % 10) + 1]>>

\* String(x) for a number x held in thousandths
DecStr(x) ==
  LET a == IF x < 0 THEN 0 - x ELSE x
      f == a % 1000
      digits == <<DigitChars[(f \div 100) + 1], DigitChars[((f \div 10) % 10) + 1],
                  DigitChars[(f % 10) + 1]>>
      kept == IF f % 100 = 0 THEN 1 ELSE IF f % 10 = 0 THEN 2 ELSE 3
  IN (IF x < 0 THEN <<"-">> ELSE <<>>) \o NumStr(a \div 1000)
     \o (IF f = 0 THEN <<>> ELSE <<".">> \o SubSeq(digits, 1, kept))

\* s.trim()
RECURSIVE TrimLeft(_)
TrimLeft(t) == IF t # <<>> /\ IsSpace(Head(t)) THEN TrimLeft(Tail(t)) ELSE t
RECURSIVE TrimRight(_)
TrimRight(t) == IF t # <<>> /\ IsSpace(t[Len(t)])
                THEN TrimRight(SubSeq(t, 1, Len(t) - 1)) ELSE t
Trim(t) == TrimRight(TrimLeft(t))

AllDigits(t) == \A i \in 1..Len(t) : IsDigit(t[i])
RECURSIVE DigitsVal(_)
DigitsVal(t) == IF t = <<>> THEN 0
                ELSE 10 * DigitsVal(SubSeq(t, 1, Len(t) - 1)) + DigitVal(t[Len(t)])

\* t.split(sep): the pieces of t between occurrences of the token sep
Split(t, sep) ==
  LET at == {i \in 1..Len(t) : t[i] = sep}
      n == Cardinality(at)
      Pos(k) == IF k = 0 THEN 0
                ELSE IF k = n + 1 THEN Len(t) + 1
                ELSE CHOOSE i \in at : Cardinality({j \in at : j < i}) = k - 1
  IN [k \in 1..(n + 1) |-> SubSeq(t, Pos(k - 1) + 1, Pos(k) - 1)]

\* !isNaN(Number(t)) and Number(t) on the model's alphabet (no exponent or
\* radix prefix, at most three fraction digits): white space is trimmed, the
\* empty string is 0, an optionally signed decimal numeral is its value,
\* anything else is NaN.
Unsigned(t) == IF t # <<>> /\ t[1] \in {"-", "+"} THEN Tail(t) ELSE t
NotNaN(t) ==
  LET parts == Split(Unsigned(Trim(t)), ".")
  IN \/ Trim(t) = <<>>
     \/ /\ Len(parts) <= 2
        /\ \A k \in 1..Len(parts) : AllDigits(parts[k])
        /\ \E k \in 1..Len(parts) : parts[k] # <<>>
        /\ Len(parts) = 2 => Len(parts[2]) <= 3
ToNumber(t) ==
  LET parts == Split(Unsigned(Trim(t)), ".")
      frac == IF Len(parts) >= 2 THEN parts[2] \o <<"0", "0", "0">> ELSE <<"0">>
      a == 1000 * DigitsVal(parts[1])
           + (IF Len(parts) >= 2 THEN DigitsVal(SubSeq(frac, 1, 3)) ELSE 0)
  IN Milli(IF Trim(t) # <<>> /\ Trim(t)[1] = "-" THEN 0 - a ELSE a)

\* the template literal `${v}` / Array.prototype.join's rendering of a value
Render(v) == IF v.k = "s" THEN v.s ELSE IF v.k = "n" THEN NumStr(v.n)
             ELSE IF v.k = "d" THEN DecStr(v.n) ELSE <<>>
Template(v) == IF v.k = "s" THEN v.s
               ELSE IF v.k = "n" THEN NumStr(v.n)
               ELSE IF v.k = "d" THEN DecStr(v.n)
               ELSE IF v.k = "null" THEN <<"n", "u", "l", "l">> ELSE <<"undefined">>

\* pieces.join(sep), sep a text
RECURSIVE Join(_, _)
Join(pieces, sep) ==
  IF pieces = <<>> THEN <<>>
  ELSE IF Len(pieces) = 1 THEN pieces[1]
  ELSE pieces[1] \o sep \o Join(Tail(pieces), sep)

Includes(t, c) == \E i \in 1..Len(t) : t[i] = c

\* t.replace(/"/g, '""')
DoubleQuotes(t) == Join(Split(t, Q), <<Q, Q>>)

\* t.replace(/""/g, '"')
RECURSIVE UndoubleQuotes(_)
UndoubleQuotes(t) ==
  IF Len(t) >= 2 /\ t[1] = Q /\ t[2] = Q
  THEN <<Q>> \o UndoubleQuotes(SubSeq(t, 3, Len(t)))
  ELSE IF t = <<>> THEN <<>>
  ELSE <<Head(t)>> \o UndoubleQuotes(Tail(t))

MapSeq(Op(_), xs) == [i \in 1..Len(xs) |-> Op(xs[i])]

Range(xs) == {xs[i] : i \in 1..Len(xs)}

\* the k-th smallest member of a set of positions
KthOf(set, k) == CHOOSE i \in set : Cardinality({j \in set : j < i}) = k - 1

\* a Map, held as its entries <<key, value>>, one per key
MapHas(map, key) == \E e \in map : e[1] = key
MapGet(map, key) == (CHOOSE e \in map : e[1] = key)[2]
MapSet(map, key, value) == {e \in map : e[1] # key} \cup {<<key, value>>}

----------------------------------------------------------------------------
(* Tabular Store: src/src/utils.ts *)

NoFile == [exists |-> FALSE, data |-> <<>>]
File(t) == [exists |-> TRUE, data |-> t]

\* parseCSVLine's loop from index i up to the end of the field that starts there:
\* [current, i, ended], ended when the loop reached the end of the line
RECURSIVE ScanField(_, _, _, _)
ScanField(line, i, current, inQuotes) ==
  IF i > Len(line) THEN [current |-> current, i |-> i, ended |-> TRUE]
  ELSE IF line[i] = Q
       THEN IF i < Len(line) /\ line[i + 1] = Q
            THEN ScanField(line, i + 2, Append(current, Q), inQuotes)
            ELSE ScanField(line, i + 1, current, ~inQuotes)
  ELSE IF line[i] = COMMA /\ ~inQuotes
       THEN [current |-> current, i |-> i + 1, ended |-> FALSE]
  ELSE ScanField(line, i + 1, Append(current, line[i]), inQuotes)

\* the loop field by field (a field ends at a comma outside quotes, where
\* inQuotes is false), then the push of the last field
RECURSIVE parseCSVLineFrom(_, _, _)
parseCSVLineFrom(line, i, result) ==
  LET field == ScanField(line, i, <<>>, FALSE)
  IN IF field.ended THEN Append(result, field.current)
     ELSE parseCSVLineFrom(line, field.i, Append(result, field.current))
parseCSVLine(line) == parseCSVLineFrom(line, 1, <<>>)

\* the conversion of one field of a data row (readFromCSV's headers.forEach)
CastField(value) ==
  IF value = <<"n", "u", "l", "l">> \/ value = <<"undefined">> THEN Null
  ELSE IF NotNaN(value) /\ value # <<>> THEN ToNumber(value)
  ELSE IF value # <<>> /\ value[1] = Q /\ value[Len(value)] = Q
       THEN S(UndoubleQuotes(SubSeq(value, 2, Len(value) - 1)))
  ELSE S(value)

\* readFromCSV: a row is the sequence of its values in header order
readFromCSV(file) ==
  IF ~file.exists THEN <<>>
  ELSE LET lines == Split(file.data, NL)
           headers == Split(lines[1], COMMA)
           Kept(line) == Trim(line) # <<>> /\ Len(parseCSVLine(line)) = Len(headers)
           Row(line) == MapSeq(CastField, parseCSVLine(line))
       IN IF Len(lines) < 2 THEN <<>>
          ELSE MapSeq(Row, SelectSeq(Tail(lines), Kept))

WriteField(v) ==
  IF v.k = "s" /\ (Includes(v.s, COMMA) \/ Includes(v.s, Q) \/ Includes(v.s, NL))
  THEN <<Q>> \o DoubleQuotes(v.s) \o <<Q>>
  ELSE Render(v)
WriteRow(row) == Join(MapSeq(WriteField, row), <<COMMA>>)

\* a write that leaves an empty file behind when there is nothing to write
writeToCSVTruncating(data, columns, file) ==
  IF data = <<>> THEN File(<<>>)
  ELSE File(Join(<<Join(MapSeq(LAMBDA c : <<c>>, columns), <<COMMA>>)>>
                 \o MapSeq(WriteRow, data), <<NL>>))

\* utils.ts 97-100 and 125-129: whether the directory of the path exists after
\* the call
DirAfterWrite(data, dirExists) == IF data = <<>> THEN dirExists ELSE TRUE

\* writeToCSV: the file after the call (columns are Object.keys(data[0]))
writeToCSV(data, columns, file) ==
  IF data = <<>> THEN file
  ELSE File(Join(<<Join(MapSeq(LAMBDA c : <<c>>, columns), <<COMMA>>)>>
                 \o MapSeq(WriteRow, data), <<NL>>))

RestaurantColumns ==
  <<"restaurant_id", "name", "address", "location_lat", "location_lng",
    "primary_type", "price_level", "rating", "attributes">>
RatingColumns ==
  <<"user_id", "restaurant_id", "rating", "review_text", "date", "source_user_name">>

----------------------------------------------------------------------------
(* The places directory (external collaborator), as the model's inputs *)

NumQueries == 2
MaxResults == 2
TargetCount == 2
MaxTarget == 3

IdA == <<"a">>
IdCD == <<"c", US, "d">>
Places == {IdA, IdCD}

\* the ids a search result can carry: a place, or none (place.id and place.name unset)
SearchIds == Places \cup {<<>>}
ResultLists == UNION {[1..n -> SearchIds] : n \in 0..MaxResults}
SearchOutcomes == {[ok |-> FALSE, places |-> <<>>]}
                  \cup {[ok |-> TRUE, places |-> r] : r \in ResultLists}

\* a review of the directory: [author, rating, text, publishTime]; author, rating
\* and text are Null when the directory leaves them out, text is S(t) when the
\* review carries a text object whose text is t
Review(author, rating, text, day) ==
  [author |-> author, rating |-> rating, text |-> text,
   publishTime |-> <<day, "T", "10:00:00.000Z">>]

DirReviews(p) ==
  IF p = IdA
  THEN <<Review(S(<<"Ana">>), N(5), S(<<"g", "r", COMMA, " ", Q, "a", Q>>), "2024-03-01"),
         Review(S(<<"Luis">>), N(4), Null, "2024-03-02")>>
  ELSE <<Review(Null, Null, S(<<"g", NL, "r">>), "2024-03-03")>>

\* getPlace's answer for place p: the record of the entity with that id
PlaceDetails(p) ==
  [id |-> p,
   displayName |-> <<"Casa ">> \o p,
   formattedAddress |-> <<"Calle 1", COMMA, " Madrid">>,
   latitude |-> 40, longitude |-> 3,
   primaryType |-> <<"Restaurant">>,
   priceLevel |-> Null,
   rating |-> N(4),
   dineIn |-> TRUE, userRatingCount |-> 12,
   reviews |-> DirReviews(p)]

----------------------------------------------------------------------------
(* Entity Collector: src/src/places.ts *)

Bool(b) == IF b THEN <<"true">> ELSE <<"false">>

\* JSON.stringify(attributes), of which the model writes the first and the last
\* of the six keys (the four flags between them have the shape of the first)
AttributesJSON(place) ==
  <<"{", Q, "dineIn", Q, ":">> \o Bool(place.dineIn)
  \o <<COMMA, Q, "userRatingCount", Q, ":">> \o NumStr(place.userRatingCount)
  \o <<"}">>

\* a Restaurant row, in the order of RestaurantColumns
convertToRestaurant(place) ==
  <<S(place.id), S(place.displayName), S(place.formattedAddress),
    N(place.latitude), N(place.longitude), S(place.primaryType),
    IF place.priceLevel.k = "n" THEN place.priceLevel ELSE N(0),
    IF place.rating.k = "n" THEN place.rating ELSE N(0),
    S(AttributesJSON(place))>>

\* one Rating row, in the order of RatingColumns
ReviewRow(review, counter, restaurant_id) ==
  <<N(counter),
    S(restaurant_id),
    IF review.rating.k = "n" /\ review.rating.n # 0 THEN review.rating ELSE N(0),
    IF review.text.k = "null" THEN S(<<>>)
    ELSE IF review.text.s # <<>> THEN review.text
    ELSE S(<<"[object Object]">>),
    S(Split(review.publishTime, "T")[1]),
    IF review.author.k = "s" /\ review.author.s # <<>> THEN review.author
    ELSE S(<<"Anonymous">>)>>

RECURSIVE ExtractFrom(_, _, _)
ExtractFrom(reviews, counter, restaurant_id) ==
  IF reviews = <<>> THEN <<>>
  ELSE <<ReviewRow(Head(reviews), counter, restaurant_id)>>
       \o ExtractFrom(Tail(reviews), counter + 1, restaurant_id)
extractReviews(place) == ExtractFrom(place.reviews, 1, place.id)

\* field accessors of rows
RestaurantId(row) == row[1]
UserId(row) == row[1]
RatingRestaurantId(row) == row[2]
ReviewText(row) == row[4]
Date(row) == row[5]
SourceUserName(row) == row[6]

----------------------------------------------------------------------------
(* Sentiment Enricher: src/src/sentiment.ts *)

\* The service's scores are multiples of 0.1 here, so every running average
\* below is exact in thousandths.

\* v || 0 for a number, null or undefined
OrZero(v) == IF v.k \in {"n", "d"} THEN v ELSE N(0)

\* s.toLowerCase(), word by word
UpperCased == {<<"La", "la">>, <<"Es", "es">>, <<"Food", "food">>, <<"Service", "service">>}
Lower(w) == IF \E pair \in UpperCased : pair[1] = w
            THEN (CHOOSE pair \in UpperCased : pair[1] = w)[2] ELSE w
toLowerCase(t) == [i \in 1..Len(t) |-> Lower(t[i])]

\* t.split(/\s+/): the pieces of t between maximal runs of white space
SplitWhitespace(t) ==
  LET starts == {i \in 1..Len(t) : IsSpace(t[i]) /\ (i = 1 \/ ~IsSpace(t[i - 1]))}
      ends == {i \in 1..Len(t) : IsSpace(t[i]) /\ (i = Len(t) \/ ~IsSpace(t[i + 1]))}
      n == Cardinality(starts)
      Kth(set, k) == CHOOSE i \in set : Cardinality({j \in set : j < i}) = k - 1
      From(k) == IF k = 1 THEN 1 ELSE Kth(ends, k - 1) + 1
      To(k) == IF k = n + 1 THEN Len(t) ELSE Kth(starts, k) - 1
  IN [k \in 1..(n + 1) |-> SubSeq(t, From(k), To(k))]

spanishWords ==
  {"el", "la", "los", "las", "un", "una", "es", "son", "y", "o", "pero", "muy",
   "bueno", "buena", "malo", "mala", "comida", "servicio", "restaurante",
   "excelente", "bien", "mal"}

\* a detector that only counts, without the share of the words
detectLanguageByCount(text) ==
  LET words == SplitWhitespace(toLowerCase(text))
      spanishWordCount ==
        Cardinality({i \in 1..Len(words) :
                       Len(words[i]) = 1 /\ words[i][1] \in spanishWords})
  IN IF spanishWordCount >= 2 THEN <<"es">> ELSE <<"en">>

\* sentiment.ts 7-47; a word of the text is one token, so a piece of the split
\* is a word (one token) or the empty string
detectLanguage(text) ==
  LET words == SplitWhitespace(toLowerCase(text))
      spanishWordCount ==
        Cardinality({i \in 1..Len(words) :
                       Len(words[i]) = 1 /\ words[i][1] \in spanishWords})
  IN IF spanishWordCount >= 2 \/ 10 * spanishWordCount > Len(words)
     THEN <<"es">> ELSE <<"en">>

foodTerms == {"food", "meal", "dish", "taste", "flavor", "menu", "cuisine",
              "delicious", "comida", "plato"}
\* (accented letters are written without the accent)
serviceTerms == {"service", "staff", "waiter", "waitress", "server", "attention",
                 "friendly", "servicio", "atencion"}
valueTerms == {"price", "value", "expensive", "cheap", "worth", "cost",
               "affordable", "precio", "caro", "barato"}
ambianceTerms == {"ambiance", "atmosphere", "decor", "environment", "music",
                  "noise", "vibe", "ambiente", "decoracion"}

\* terms.some(term => text.includes(term)); a word that is not a term contains none
SomeTermIn(text, terms) == \E i \in 1..Len(text) : text[i] \in terms

\* an aspect score that is the mean of all the matching sentences' scores
RECURSIVE MatchingTotal(_, _)
MatchingTotal(sentences, terms) ==
  IF sentences = <<>> THEN [sum |-> 0, count |-> 0]
  ELSE LET sentence == Head(sentences)
           text == IF sentence.content.k = "s" THEN toLowerCase(sentence.content.s)
                   ELSE <<>>
           rest == MatchingTotal(Tail(sentences), terms)
       IN IF SomeTermIn(text, terms)
          THEN [sum |-> rest.sum + Thousandths(OrZero(sentence.score)),
                count |-> rest.count + 1]
          ELSE rest
AspectFromTrueMean(sentences, terms, score) ==
  LET total == MatchingTotal(sentences, terms)
  IN IF total.count = 0 THEN score ELSE Milli(total.sum \div total.count)

\* sentiment.ts 151-184, for one aspect: the accumulated score after the sentences
RECURSIVE AspectFrom(_, _, _)
AspectFrom(sentences, terms, score) ==
  IF sentences = <<>> THEN score
  ELSE LET sentence == Head(sentences)
           text == IF sentence.content.k = "s" THEN toLowerCase(sentence.content.s)
                   ELSE <<>>
           sentenceScore == OrZero(sentence.score)
           averaged == Milli((Thousandths(score) + Thousandths(sentenceScore)) \div 2)
       IN AspectFrom(Tail(sentences), terms,
            IF SomeTermIn(text, terms)
            THEN (IF score = Null THEN sentenceScore ELSE averaged)
            ELSE score)
AspectScore(sentences, terms) == AspectFrom(sentences, terms, Null)

\* emotion bands in which joy does not look at the magnitude
EmotionsByScoreOnly(score, magnitude) ==
  LET x == Thousandths(score)
  IN (IF x > 700 THEN <<"joy">> ELSE <<>>)
     \o (IF x > 500 /\ x <= 700 THEN <<"satisfaction">> ELSE <<>>)
     \o (IF x > 0 /\ x <= 500 THEN <<"contentment">> ELSE <<>>)
     \o (IF x < 0 /\ x >= -500 THEN <<"disappointment">> ELSE <<>>)
     \o (IF x < -500 /\ x >= -700 THEN <<"frustration">> ELSE <<>>)
     \o (IF x < -700 THEN <<"anger">> ELSE <<>>)

\* sentiment.ts 190-199
Emotions(score, magnitude) ==
  LET x == Thousandths(score)
      m == Thousandths(magnitude)
  IN (IF x > 700 /\ m > 1500 THEN <<"joy">> ELSE <<>>)
     \o (IF x > 500 /\ x <= 700 THEN <<"satisfaction">> ELSE <<>>)
     \o (IF x > 0 /\ x <= 500 THEN <<"contentment">> ELSE <<>>)
     \o (IF x < 0 /\ x >= -500 THEN <<"disappointment">> ELSE <<>>)
     \o (IF x < -500 /\ x >= -700 THEN <<"frustration">> ELSE <<>>)
     \o (IF x < -700 THEN <<"anger">> ELSE <<>>)

\* JSON.stringify of an array of strings
JsonStringify(labels) ==
  <<"[">> \o Join([i \in 1..Len(labels) |-> <<Q, labels[i], Q>>], <<COMMA>>) \o <<"]">>

\* a blank test that does not trim
IsBlankTextUntrimmed(v) == v.k \in {"null", "undefined"} \/ v = N(0) \/ v = S(<<>>)

\* sentiment.ts 82: !review.review_text || review.review_text.trim() === ""
IsBlankText(v) == v.k \in {"null", "undefined"} \/ v = N(0) \/ (v.k = "s" /\ Trim(v.s) = <<>>)

\* sentiment.ts 202: `${review.user_id}_${review.restaurant_id}_${review.date}`
ReviewKey(review) ==
  Template(UserId(review)) \o <<US>> \o Template(RatingRestaurantId(review))
    \o <<US>> \o Template(Date(review))

SentimentColumns == <<"review_id", "user_id", "restaurant_id", "overall_score",
                      "overall_magnitude", "food_score", "service_score",
                      "value_score", "ambiance_score", "language", "emotions">>

\* sentiment.ts 95-220: the record built from the service's response
SentimentRecord(review, response, review_id) ==
  LET sentiment == response.documentSentiment
      sentences == response.sentences
  IN <<review_id, UserId(review), RatingRestaurantId(review),
       OrZero(sentiment.score), OrZero(sentiment.magnitude),
       OrZero(AspectScore(sentences, foodTerms)),
       OrZero(AspectScore(sentences, serviceTerms)),
       OrZero(AspectScore(sentences, valueTerms)),
       OrZero(AspectScore(sentences, ambianceTerms)),
       S(detectLanguage(ReviewText(review).s)),
       S(JsonStringify(Emotions(OrZero(sentiment.score), OrZero(sentiment.magnitude))))>>

\* field accessors of sentiment rows
ReviewId(row) == row[1]
SentimentUserId(row) == row[2]
SentimentRestaurantId(row) == row[3]
OverallScore(row) == row[4]
OverallMagnitude(row) == row[5]
FoodScore(row) == row[6]
ServiceScore(row) == row[7]
ValueScore(row) == row[8]
AmbianceScore(row) == row[9]
Language(row) == row[10]
EmotionsJson(row) == row[11]

\* what the service call of one review comes to: a response, or an error
Sentence(content, score) == [content |-> content, score |-> score]
Response(score, magnitude, sentences) ==
  [ok |-> TRUE, documentSentiment |-> [score |-> score, magnitude |-> magnitude],
   sentences |-> sentences]
Failure ==
  [ok |-> FALSE, documentSentiment |-> [score |-> Undefined, magnitude |-> Undefined],
   sentences |-> <<>>]
ServiceOutcomes ==
  {Failure,
   Response(Milli(800), Milli(2000), <<Sentence(S(<<"Food">>), Milli(800))>>),
   Response(Milli(-600), Milli(1200), <<>>)}

VARIABLES
  restaurantsCsv,      \* ./data/restaurants.csv
  ratingsCsv,          \* ./data/ratings.csv
  pc,                  \* where the run is: "idle", "query", "place", "merge", "returned"
  caller,              \* "main" (the pipeline driver) or "direct"
  targetCount,         \* collect's targetCount
  idsGiven,            \* whether the caller passed existingIds
  existingIds,         \* the existing-identifier set the run is seeded with
  existingRestaurants, existingReviews,
  remainingCount,
  seenIds, newRestaurants, newReviews,
  qi,                  \* index of the current search phrase
  searchResults, pi,   \* the current phrase's results and the index into them
  ret,                 \* what collect returned
  analyzeInput,        \* what main handed to analyzeReviewSentiment in this run
  fetchCount,          \* history: detail fetches issued in this run, per place (capped at 2)
  startRestaurantsCsv, startRatingsCsv,   \* history: the files when the run began
  persistedEarlier,    \* history: rating rows the runs before this one wrote
  dirSearch,           \* a fixed directory: the answer to each search phrase
  dirFetchOk,          \* a fixed directory: the places whose details it serves
  sameTarget,          \* the target of the repeated call
  runNo,               \* history: calls begun against the fixed directory (capped at 2)
  step,                \* where a call of the Identifier Reconciler is: "input", ...
  ratings, updatedRatings,                  \* reassignUserIds: argument and result
  sentimentReviews, oldRatings, newRatings, \* reassignReviewSentimentIds: arguments
  reassigned,          \* the result of reassignReviewSentimentIds
  cleaned,             \* the result of cleanInvalidIds
  cleanInput, cleanType,    \* cleanInvalidIds: arguments of a call on its own
  cleanedTwice,        \* cleanInvalidIds applied to its own result
  sentimentCsv,        \* ./data/review_sentiment.csv
  analyzePc,           \* where analyzeReviewSentiment is: "idle", "batch", "await", "delay", "done"
  analyzeReviews,      \* its argument
  results, analyzeReviewMap, analyzeNextReviewId,
  batchStart,          \* i, the offset of the current batch
  batchResults,        \* the current batch's settled callbacks: <<>> for null, <<record>>
  inFlight,            \* positions of the reviews whose service call has not settled
  callCount,           \* history: service calls issued per review (capped at 2)
  failedCalls,         \* history: positions of the reviews whose call failed
  recordReview, recordResponse,   \* one callback on its own: the review, the response
  record,              \* the record the callback returned
  detectText, detectedLanguage,  \* detectLanguage on its own: argument and result
  storeData, storeFile, storeLoaded,  \* writeToCSV then readFromCSV: rows, file, rows read
  storeDir,            \* whether the directory of storeFile's path exists
  lastSaved            \* history: the rows of the latest non-empty save to storeFile

collectVars == <<targetCount, idsGiven, existingIds, existingRestaurants, existingReviews,
                 remainingCount, seenIds, newRestaurants, newReviews, qi, searchResults, pi>>
fileVars == <<restaurantsCsv, ratingsCsv>>
historyVars == <<fetchCount, startRestaurantsCsv, startRatingsCsv, persistedEarlier>>
dirVars == <<dirSearch, dirFetchOk, sameTarget>>
sameVars == <<dirVars, runNo>>
recVars == <<step, ratings, updatedRatings, sentimentReviews, oldRatings, newRatings,
             reassigned, cleaned>>
cleanVars == <<cleanInput, cleanType, cleanedTwice>>
recordVars == <<recordReview, recordResponse, record>>
detectVars == <<detectText, detectedLanguage>>
storeVars == <<storeData, storeFile, storeLoaded, storeDir, lastSaved>>
libVars == <<cleanVars, recordVars, detectVars, storeVars>>
analyzeVars == <<analyzePc, analyzeReviews, results, analyzeReviewMap, analyzeNextReviewId,
                 batchStart, batchResults, inFlight, callCount, failedCalls>>
enrichVars == <<sentimentCsv, analyzeVars>>
callVars == <<libVars, enrichVars>>
vars == <<fileVars, pc, caller, collectVars, ret, analyzeInput, historyVars, sameVars,
          recVars, callVars>>

NoReturn == [restaurants |-> <<>>, reviews |-> <<>>,
             newlyCollected |-> [restaurants |-> 0, reviews |-> 0]]

InitRun ==
  /\ restaurantsCsv = NoFile /\ ratingsCsv = NoFile
  /\ pc = "idle" /\ caller = "direct"
  /\ targetCount = 0 /\ idsGiven = FALSE /\ existingIds = {}
  /\ existingRestaurants = <<>> /\ existingReviews = <<>>
  /\ remainingCount = 0
  /\ seenIds = {} /\ newRestaurants = <<>> /\ newReviews = <<>>
  /\ qi = 1 /\ searchResults = <<>> /\ pi = 1
  /\ ret = NoReturn /\ analyzeInput = <<>>
  /\ fetchCount = [p \in Places |-> 0]
  /\ startRestaurantsCsv = NoFile /\ startRatingsCsv = NoFile
  /\ persistedEarlier = {}
  /\ runNo = 0

InitDir ==
  /\ dirSearch = [q \in 1..NumQueries |-> [ok |-> FALSE, places |-> <<>>]]
  /\ dirFetchOk = {}
  /\ sameTarget = 0

InitRec ==
  /\ step = "input"
  /\ ratings = <<>> /\ updatedRatings = <<>>
  /\ sentimentReviews = <<>> /\ oldRatings = <<>> /\ newRatings = <<>>
  /\ reassigned = <<>> /\ cleaned = <<>>

IdleClean == cleanInput = <<>> /\ cleanType = "ratings" /\ cleanedTwice = <<>>

IdleAnalyze ==
  /\ analyzePc = "idle" /\ analyzeReviews = <<>>
  /\ results = <<>> /\ analyzeReviewMap = {} /\ analyzeNextReviewId = 1
  /\ batchStart = 0 /\ batchResults = <<>> /\ inFlight = {}
  /\ callCount = <<>> /\ failedCalls = {}

IdleRecord == recordReview = <<>> /\ recordResponse = Failure /\ record = <<>>

IdleDetect == detectText = <<>> /\ detectedLanguage = <<>>

IdleStore ==
  /\ storeData = <<>> /\ storeFile = NoFile /\ storeLoaded = <<>>
  /\ storeDir = FALSE /\ lastSaved = <<>>

InitLib == IdleClean /\ IdleRecord /\ IdleDetect /\ IdleStore
InitCalls == InitLib /\ sentimentCsv = NoFile /\ IdleAnalyze

Init == InitRun /\ InitDir /\ InitRec /\ InitCalls

Max(a, b) == IF a >= b THEN a ELSE b

\* places.ts 199-217: the rows and ids a call starts from
LoadedRestaurants(given) == IF given THEN <<>> ELSE readFromCSV(restaurantsCsv)
LoadedReviews(given) == IF given THEN <<>> ELSE readFromCSV(ratingsCsv)
LoadedIds(given, ids, restaurants) ==
  IF given THEN ids ELSE {RestaurantId(r) : r \in Range(restaurants)}

\* a seen-set that starts empty, whatever the run loaded
SeedSeenIdsEmpty(ids) == {}

\* places.ts 275: const seenIds = new Set<string>(existingIds)
SeedSeenIds(ids) == ids

\* places.ts 193-232 and 274-277: the call, the load, the early return
CollectStart(who, target, given, ids) ==
  /\ pc = "idle"
  /\ caller' = who /\ targetCount' = target /\ idsGiven' = given
  /\ existingRestaurants' = LoadedRestaurants(given)
  /\ existingReviews' = LoadedReviews(given)
  /\ existingIds' = LoadedIds(given, ids, existingRestaurants')
  /\ remainingCount' = Max(0, target - Len(existingRestaurants'))
  /\ seenIds' = SeedSeenIds(existingIds')
  /\ newRestaurants' = <<>> /\ newReviews' = <<>>
  /\ qi' = 1 /\ searchResults' = <<>> /\ pi' = 1
  /\ analyzeInput' = <<>>
  /\ fetchCount' = [p \in Places |-> 0]
  /\ startRestaurantsCsv' = restaurantsCsv /\ startRatingsCsv' = ratingsCsv
  /\ IF remainingCount' <= 0
     THEN /\ ret' = [restaurants |-> existingRestaurants', reviews |-> existingReviews',
                     newlyCollected |-> [restaurants |-> 0, reviews |-> 0]]
          /\ pc' = "returned"
     ELSE /\ ret' = NoReturn
          /\ pc' = "query"
  /\ persistedEarlier' = persistedEarlier \cup Range(ret.reviews)
  /\ UNCHANGED <<fileVars, dirVars, recVars, callVars>>

\* places.ts 280-281: the phrases are exhausted or the count is reached
QueriesDone ==
  /\ pc = "query"
  /\ qi > NumQueries \/ Len(newRestaurants) >= remainingCount
  /\ pc' = "merge"
  /\ UNCHANGED <<sameVars, recVars, callVars, fileVars, caller, collectVars, ret, analyzeInput, historyVars>>

\* a search whose error is not caught: the run stops where it is
SearchAborting(outcome) ==
  /\ pc = "query"
  /\ qi <= NumQueries /\ Len(newRestaurants) < remainingCount
  /\ IF outcome.ok
     THEN /\ searchResults' = outcome.places /\ pi' = 1
          /\ pc' = "place"
     ELSE /\ pc' = "aborted"
          /\ UNCHANGED <<searchResults, pi>>
  /\ UNCHANGED <<sameVars, recVars, callVars, fileVars, caller, targetCount, idsGiven, existingIds, existingRestaurants,
                 existingReviews, remainingCount, seenIds, newRestaurants, newReviews,
                 qi, ret, analyzeInput, historyVars>>

\* places.ts 285-287 and 318-322: searchPlaces answers, or throws
Search(outcome) ==
  /\ pc = "query"
  /\ qi <= NumQueries /\ Len(newRestaurants) < remainingCount
  /\ IF outcome.ok
     THEN /\ searchResults' = outcome.places /\ pi' = 1
          /\ pc' = "place"
          /\ qi' = qi
     ELSE /\ qi' = qi + 1
          /\ UNCHANGED <<searchResults, pi, pc>>
  /\ UNCHANGED <<sameVars, recVars, callVars, fileVars, caller, targetCount, idsGiven, existingIds, existingRestaurants,
                 existingReviews, remainingCount, seenIds, newRestaurants, newReviews,
                 ret, analyzeInput, historyVars>>

\* places.ts 290-291 and 315-316: the results are exhausted or the count is reached
PlacesDone ==
  /\ pc = "place"
  /\ pi > Len(searchResults) \/ Len(newRestaurants) >= remainingCount
  /\ qi' = qi + 1 /\ pc' = "query"
  /\ UNCHANGED <<sameVars, recVars, callVars, fileVars, caller, targetCount, idsGiven, existingIds, existingRestaurants,
                 existingReviews, remainingCount, seenIds, newRestaurants, newReviews,
                 searchResults, pi, ret, analyzeInput, historyVars>>

InPlaceLoop ==
  /\ pc = "place"
  /\ pi <= Len(searchResults) /\ Len(newRestaurants) < remainingCount

\* places.ts 293-294: no id, or an id already seen
SkipPlace ==
  /\ InPlaceLoop
  /\ searchResults[pi] = <<>> \/ S(searchResults[pi]) \in seenIds
  /\ pi' = pi + 1
  /\ UNCHANGED <<sameVars, recVars, callVars, fileVars, pc, caller, targetCount, idsGiven, existingIds,
                 existingRestaurants, existingReviews, remainingCount, seenIds,
                 newRestaurants, newReviews, qi, searchResults, ret, analyzeInput,
                 historyVars>>

CountFetch(placeId) ==
  [fetchCount EXCEPT ![placeId] = IF @ < 2 THEN @ + 1 ELSE @]

\* places.ts 296-312: fetchPlaceInfo answers (ok) or throws
Fetch(ok) ==
  /\ InPlaceLoop
  /\ searchResults[pi] # <<>> /\ S(searchResults[pi]) \notin seenIds
  /\ LET placeId == searchResults[pi]
         placeDetails == PlaceDetails(placeId)
     IN /\ fetchCount' = CountFetch(placeId)
        /\ IF ok
           THEN /\ newRestaurants' = Append(newRestaurants, convertToRestaurant(placeDetails))
                /\ newReviews' = newReviews \o extractReviews(placeDetails)
                /\ seenIds' = seenIds \cup {S(placeId)}
           ELSE UNCHANGED <<newRestaurants, newReviews, seenIds>>
  /\ pi' = pi + 1
  /\ UNCHANGED <<sameVars, recVars, callVars, fileVars, pc, caller, targetCount, idsGiven, existingIds,
                 existingRestaurants, existingReviews, remainingCount, qi, searchResults,
                 ret, analyzeInput, startRestaurantsCsv, startRatingsCsv, persistedEarlier>>

\* places.ts 327-344: combine, save, return
MergeAndSave ==
  /\ pc = "merge"
  /\ LET allRestaurants == existingRestaurants \o newRestaurants
         allReviews == existingReviews \o newReviews
     IN /\ restaurantsCsv' = writeToCSV(allRestaurants, RestaurantColumns, restaurantsCsv)
        /\ ratingsCsv' = writeToCSV(allReviews, RatingColumns, ratingsCsv)
        /\ ret' = [restaurants |-> allRestaurants, reviews |-> allReviews,
                   newlyCollected |-> [restaurants |-> Len(newRestaurants),
                                       reviews |-> Len(newReviews)]]
  /\ pc' = "returned"
  /\ UNCHANGED <<sameVars, recVars, callVars, caller, collectVars, analyzeInput, historyVars>>

\* a slice that keeps the whole returned table
NewReviewsSliceAll(reviews, n) == reviews

\* utils.ts 185: reviews.slice(reviews.length - newlyCollected.reviews)
NewReviewsSlice(reviews, n) == SubSeq(reviews, Len(reviews) - n + 1, Len(reviews))

----------------------------------------------------------------------------
(* analyzeReviewSentiment, step by step: src/src/sentiment.ts 52-241 *)

BatchSize == 2

\* the callback reaches client.analyzeSentiment: the text is a non-blank string
\* (a truthy value that is not a string throws at .trim(), inside the try)
CallsService(review) ==
  ~IsBlankText(ReviewText(review)) /\ ReviewText(review).k = "s"

BatchOf(start) ==
  {idx \in 1..Len(analyzeReviews) : start < idx /\ idx <= start + BatchSize}

\* the start of a call: sentiment.ts 57-69
AnalyzeBegin(reviews) ==
  /\ analyzePc' = "batch"
  /\ analyzeReviews' = reviews
  /\ results' = <<>> /\ analyzeReviewMap' = {} /\ analyzeNextReviewId' = 1
  /\ batchStart' = 0 /\ batchResults' = <<>> /\ inFlight' = {}
  /\ callCount' = [idx \in 1..Len(reviews) |-> 0]
  /\ failedCalls' = {}

analyzeFrame == <<fileVars, pc, caller, collectVars, ret, analyzeInput, historyVars, sameVars,
                  recVars, libVars, sentimentCsv>>

\* sentiment.ts 71-94: batch.map runs every callback up to its first await: a
\* blank review settles with null, for any other the service call is issued
BatchIssue ==
  /\ analyzePc = "batch" /\ batchStart < Len(analyzeReviews)
  /\ LET batch == BatchOf(batchStart)
         calling == {idx \in batch : CallsService(analyzeReviews[idx])}
     IN /\ inFlight' = inFlight \cup calling
        /\ batchResults' = [idx \in batch |-> <<>>]
        /\ callCount' = [idx \in DOMAIN callCount |->
                           IF idx \in calling /\ callCount[idx] < 2
                           THEN callCount[idx] + 1 ELSE callCount[idx]]
  /\ analyzePc' = "await"
  /\ UNCHANGED <<analyzeFrame, analyzeReviews, results, analyzeReviewMap,
                 analyzeNextReviewId, batchStart, failedCalls>>

\* sentiment.ts 94-224: one call settles; its callback runs to its return
Settle(idx, outcome) ==
  /\ analyzePc = "await" /\ idx \in inFlight
  /\ inFlight' = inFlight \ {idx}
  /\ IF outcome.ok
     THEN LET review == analyzeReviews[idx]
              key == ReviewKey(review)
              has == MapHas(analyzeReviewMap, key)
              map2 == IF has THEN analyzeReviewMap
                      ELSE MapSet(analyzeReviewMap, key, S(NumStr(analyzeNextReviewId)))
          IN /\ analyzeReviewMap' = map2
             /\ analyzeNextReviewId' = IF has THEN analyzeNextReviewId
                                       ELSE analyzeNextReviewId + 1
             /\ batchResults' = [batchResults EXCEPT
                                   ![idx] = <<SentimentRecord(review, outcome,
                                                              MapGet(map2, key))>>]
             /\ UNCHANGED failedCalls
     ELSE /\ failedCalls' = failedCalls \cup {idx}
          /\ UNCHANGED <<analyzeReviewMap, analyzeNextReviewId, batchResults>>
  /\ UNCHANGED <<analyzeFrame, analyzePc, analyzeReviews, results, batchStart, callCount>>

\* a push that drops the whole batch when one of its callbacks gave null
PushResultsAllOrNothing(rs, settled) ==
  IF \E idx \in DOMAIN settled : settled[idx] = <<>> THEN rs
  ELSE rs \o [k \in 1..Cardinality(DOMAIN settled) |-> settled[KthOf(DOMAIN settled, k)][1]]

\* sentiment.ts 227-232: Promise.all resolved; the non-null results are pushed in batch order
PushResults(rs, settled) ==
  LET some == {idx \in DOMAIN settled : settled[idx] # <<>>}
  IN rs \o [k \in 1..Cardinality(some) |-> settled[KthOf(some, k)][1]]

\* a loop that does not wait for the batch's calls before it goes on
BatchSettledWithoutAwait ==
  /\ analyzePc = "await"
  /\ results' = PushResults(results, batchResults)
  /\ IF batchStart + BatchSize < Len(analyzeReviews)
     THEN analyzePc' = "delay" /\ UNCHANGED batchStart
     ELSE analyzePc' = "batch" /\ batchStart' = batchStart + BatchSize
  /\ UNCHANGED <<analyzeFrame, analyzeReviews, analyzeReviewMap, analyzeNextReviewId,
                 batchResults, inFlight, callCount, failedCalls>>

\* sentiment.ts 227-237
BatchSettled ==
  /\ analyzePc = "await" /\ inFlight = {}
  /\ results' = PushResults(results, batchResults)
  /\ IF batchStart + BatchSize < Len(analyzeReviews)
     THEN analyzePc' = "delay" /\ UNCHANGED batchStart
     ELSE analyzePc' = "batch" /\ batchStart' = batchStart + BatchSize
  /\ UNCHANGED <<analyzeFrame, analyzeReviews, analyzeReviewMap, analyzeNextReviewId,
                 batchResults, inFlight, callCount, failedCalls>>

\* sentiment.ts 235-237: the delay between batches is over
DelayOver ==
  /\ analyzePc = "delay"
  /\ analyzePc' = "batch" /\ batchStart' = batchStart + BatchSize
  /\ UNCHANGED <<analyzeFrame, analyzeReviews, results, analyzeReviewMap,
                 analyzeNextReviewId, batchResults, inFlight, callCount, failedCalls>>

\* sentiment.ts 71, 240: the loop is over, results is returned
AnalyzeReturn ==
  /\ analyzePc = "batch" /\ batchStart >= Len(analyzeReviews)
  /\ analyzePc' = "done"
  /\ UNCHANGED <<analyzeFrame, analyzeReviews, results, analyzeReviewMap,
                 analyzeNextReviewId, batchStart, batchResults, inFlight, callCount,
                 failedCalls>>

AnalyzeSteps ==
  \/ BatchIssue
  \/ \E idx \in inFlight, outcome \in ServiceOutcomes : Settle(idx, outcome)
  \/ BatchSettled
  \/ DelayOver
  \/ AnalyzeReturn

----------------------------------------------------------------------------
(* main, after collectRestaurantsInMadrid returned: src/src/utils.ts 180-199 *)

\* utils.ts 181-186: main hands the newly collected reviews to analyzeReviewSentiment
MainAnalyze ==
  /\ pc = "returned" /\ caller = "main"
  /\ ret.newlyCollected.reviews > 0
  /\ analyzeInput' = NewReviewsSlice(ret.reviews, ret.newlyCollected.reviews)
  /\ AnalyzeBegin(analyzeInput')
  /\ pc' = "analyzing"
  /\ UNCHANGED <<sameVars, recVars, libVars, sentimentCsv, fileVars, caller, collectVars,
                 ret, historyVars>>

\* utils.ts 188-194: the results are appended to the sentiment file
MainSaveSentiment ==
  /\ pc = "analyzing" /\ analyzePc = "done"
  /\ sentimentCsv' =
       IF sentimentCsv.exists
       THEN writeToCSV(readFromCSV(sentimentCsv) \o results, SentimentColumns, sentimentCsv)
       ELSE writeToCSV(results, SentimentColumns, sentimentCsv)
  /\ pc' = "idle" /\ analyzePc' = "idle"
  /\ UNCHANGED <<sameVars, recVars, libVars, fileVars, caller, collectVars, ret,
                 analyzeInput, historyVars, analyzeReviews, results, analyzeReviewMap,
                 analyzeNextReviewId, batchStart, batchResults, inFlight, callCount,
                 failedCalls>>

\* utils.ts 197-199: no new reviews, nothing to analyze
MainNoNew ==
  /\ pc = "returned" /\ caller = "main"
  /\ ret.newlyCollected.reviews = 0
  /\ pc' = "idle"
  /\ UNCHANGED <<sameVars, recVars, callVars, fileVars, caller, collectVars, ret, analyzeInput, historyVars>>

\* a direct caller of collectRestaurantsInMadrid takes the result
DirectReturn ==
  /\ pc = "returned" /\ caller = "direct"
  /\ pc' = "idle"
  /\ UNCHANGED <<sameVars, recVars, callVars, fileVars, caller, collectVars, ret, analyzeInput, historyVars>>

\* utils.ts 173-176: main calls collectRestaurantsInMadrid(placesApiKey, targetCount)
MainStart == CollectStart("main", TargetCount, FALSE, {}) /\ UNCHANGED runNo

\* any other call of collectRestaurantsInMadrid, with or without existingIds
DirectStart ==
  \E target \in 1..MaxTarget, given \in BOOLEAN, ids \in SUBSET {S(p) : p \in Places} :
    /\ ~given => ids = {}
    /\ CollectStart("direct", target, given, ids)
    /\ UNCHANGED runNo

\* places.ts 280-325: the loop over the phrases and the loop over a phrase's results
LoopSteps ==
  \/ QueriesDone
  \/ \E outcome \in SearchOutcomes : Search(outcome)
  \/ PlacesDone
  \/ SkipPlace
  \/ \E ok \in BOOLEAN : Fetch(ok)

CollectSteps ==
  \/ LoopSteps
  \/ MergeAndSave

\* the Entity Collector under any caller: main's call is the direct call with
\* TargetCount and no existingIds; what main does with the result is NextDriver
Next ==
  \/ DirectStart
  \/ CollectSteps
  \/ DirectReturn

Spec == Init /\ [][Next]_vars

\* the pipeline driver alone: every run is a run of main
NextDriver ==
  \/ MainStart
  \/ CollectSteps
  \/ MainAnalyze
  \/ AnalyzeSteps
  \/ MainSaveSentiment
  \/ MainNoNew

SpecDriver == Init /\ [][NextDriver]_vars

----------------------------------------------------------------------------
(* The same call repeated against a directory that answers the same way *)

InitSame ==
  /\ InitRun
  /\ dirSearch \in [1..NumQueries -> SearchOutcomes]
  /\ dirFetchOk \in SUBSET Places
  /\ sameTarget \in 1..MaxTarget
  /\ InitRec /\ InitCalls

\* collectRestaurantsInMadrid(apiKey, sameTarget), existingIds not supplied
SameStart ==
  /\ CollectStart("direct", sameTarget, FALSE, {})
  /\ runNo' = IF runNo < 2 THEN runNo + 1 ELSE runNo

\* places.ts 286: the directory's answer to the phrase
SameSearch ==
  /\ qi <= NumQueries
  /\ Search(dirSearch[qi])

\* places.ts 298: the directory's answer for the place
SameFetch ==
  /\ InPlaceLoop
  /\ Fetch(searchResults[pi] \in dirFetchOk)

NextSame ==
  \/ SameStart
  \/ QueriesDone
  \/ SameSearch
  \/ PlacesDone
  \/ SkipPlace
  \/ SameFetch
  \/ MergeAndSave
  \/ DirectReturn

SpecSame == InitSame /\ [][NextSame]_vars

----------------------------------------------------------------------------
(* Claims about the Entity Collector and the driver *)

NoDuplicates(xs) == \A i, j \in 1..Len(xs) : i # j => xs[i] # xs[j]
RestaurantIds(rows) == MapSeq(RestaurantId, rows)

\* C1: after any sequence of collection runs, no restaurant_id appears in more
\* than one row of the restaurant table, neither in the table a run returns nor
\* in the table persisted in restaurants.csv.
C1_NoDuplicateRestaurant ==
  /\ NoDuplicates(RestaurantIds(readFromCSV(restaurantsCsv)))
  /\ pc = "returned" => NoDuplicates(RestaurantIds(ret.restaurants))

\* a later run that loaded persisted restaurants, met one of them again in the
\* search results and returned it together with a newly collected one
C1_Witness ==
  /\ pc = "returned"
  /\ existingRestaurants # <<>> /\ newRestaurants # <<>>
  /\ \E q \in 1..Len(searchResults) : S(searchResults[q]) \in existingIds
  /\ Len(readFromCSV(restaurantsCsv)) = Len(existingRestaurants) + Len(newRestaurants)

\* C2: within one run the detail fetch is issued at most once per restaurant
\* identifier, and never for an identifier of the seeded existing set.
C2_FetchAtMostOnce ==
  \A p \in Places :
    /\ fetchCount[p] <= 1
    /\ fetchCount[p] >= 1 => S(p) \notin existingIds

\* the text a table takes when rows are appended to what the file holds
AppendedText(file, rows, columns) ==
  IF rows = <<>> THEN file
  ELSE IF file.exists
       THEN File(file.data \o <<NL>> \o Join(MapSeq(WriteRow, rows), <<NL>>))
       ELSE writeToCSV(rows, columns, file)

\* C4: on every call, also one whose caller supplies the existing-identifier
\* set, the returned and the persisted tables are the previously persisted rows,
\* unchanged and in their order, followed by the newly collected rows, and
\* newlyCollected counts the rows appended.
C4_AppendOnly ==
  pc = "returned" =>
    /\ ret.restaurants = readFromCSV(startRestaurantsCsv) \o newRestaurants
    /\ ret.reviews = readFromCSV(startRatingsCsv) \o newReviews
    /\ restaurantsCsv = AppendedText(startRestaurantsCsv, newRestaurants, RestaurantColumns)
    /\ ratingsCsv = AppendedText(startRatingsCsv, newReviews, RatingColumns)
    /\ ret.newlyCollected = [restaurants |-> Len(newRestaurants), reviews |-> Len(newReviews)]

\* C3: the collector run a second time with the same target against a directory
\* that answers as before collects nothing new and leaves both tables as the
\* first run persisted them.
C3_SecondRunChangesNothing ==
  (pc = "returned" /\ runNo = 2) =>
    /\ ret.newlyCollected = [restaurants |-> 0, reviews |-> 0]
    /\ restaurantsCsv = startRestaurantsCsv
    /\ ratingsCsv = startRatingsCsv

\* C5: the ratings main hands to analyzeReviewSentiment are exactly the rows the
\* run appended, the last newlyCollected.reviews entries of the returned table,
\* and none of them was written by an earlier run.
C5_OnlyNewRatingsAnalyzed ==
  /\ (pc = "idle" /\ caller = "main") => analyzeInput = newReviews
  /\ Range(analyzeInput) \cap persistedEarlier = {}

\* main hands new ratings to the enricher in a run that began with persisted ones
C5_Witness ==
  /\ pc = "idle" /\ caller = "main"
  /\ analyzeInput # <<>>
  /\ existingReviews # <<>>
  /\ persistedEarlier # {}

----------------------------------------------------------------------------
(* Identifier Reconciler: src/unnamed/part_002 *)


\* a key made of the display name and the restaurant
compositeKeyWithRestaurant(rating) == <<SourceUserName(rating), RatingRestaurantId(rating)>>

\* part_002 70: const compositeKey = rating.source_user_name
compositeKey(rating) == SourceUserName(rating)

\* part_002 68-85: the map callback, with userMap and nextUserId carried along
RECURSIVE ReassignFrom(_, _, _)
ReassignFrom(rs, userMap, nextUserId) ==
  IF rs = <<>> THEN <<>>
  ELSE LET rating == Head(rs)
           key == compositeKey(rating)
           has == MapHas(userMap, key)
           userMap2 == IF has THEN userMap ELSE MapSet(userMap, key, nextUserId)
           nextUserId2 == IF has THEN nextUserId ELSE nextUserId + 1
       IN <<[rating EXCEPT ![1] = N(MapGet(userMap2, key))]>>
          \o ReassignFrom(Tail(rs), userMap2, nextUserId2)

\* ids handed out from 0
reassignUserIdsFromZero(rs) == ReassignFrom(rs, {}, 0)

\* part_002 62-89
reassignUserIds(rs) == ReassignFrom(rs, {}, 1)

\* `${a}_${b}`
CompositeId(a, b) == Template(a) \o <<US>> \o Template(b)

\* part_002 107-109: the predicate of newRatings.find
Matches(newRating, oldRating) ==
  /\ RatingRestaurantId(newRating) = RatingRestaurantId(oldRating)
  /\ ReviewText(newRating) = ReviewText(oldRating)

\* part_002 106-110: newRatings.find(...), the first match or none
FindMatching(news, oldRating) ==
  LET hits == {i \in 1..Len(news) : Matches(news[i], oldRating)}
  IN IF hits = {} THEN [found |-> FALSE, rating |-> <<>>]
     ELSE [found |-> TRUE, rating |-> news[CHOOSE i \in hits : \A j \in hits : i <= j]]

\* part_002 104-115: old_user_id + restaurant_id -> new global user_id
RECURSIVE BuildUserMapping(_, _, _)
BuildUserMapping(olds, news, newUserMapping) ==
  IF olds = <<>> THEN newUserMapping
  ELSE LET oldRating == Head(olds)
           matchingNewRating == FindMatching(news, oldRating)
           key == CompositeId(UserId(oldRating), RatingRestaurantId(oldRating))
       IN BuildUserMapping(Tail(olds), news,
            IF matchingNewRating.found
            THEN MapSet(newUserMapping, key, UserId(matchingNewRating.rating))
            ELSE newUserMapping)

\* part_002 119: const [relativeUserId, restaurantId] = sentiment.review_id.split('_')
SplitReviewId(review_id) ==
  LET parts == Split(review_id.s, US)
  IN [relativeUserId |-> S(parts[1]),
      restaurantId |-> IF Len(parts) >= 2 THEN S(parts[2]) ELSE Undefined]

\* part_002 123: newUserMapping.get(key) || 0
GlobalUserId(newUserMapping, key) ==
  IF MapHas(newUserMapping, key) /\ MapGet(newUserMapping, key) \notin {N(0), Null, Undefined}
  THEN MapGet(newUserMapping, key)
  ELSE N(0)

\* part_002 117-136: the map callback, with reviewMap and nextReviewId carried along
RECURSIVE ReassignRows(_, _, _, _)
ReassignRows(rows, newUserMapping, reviewMap, nextReviewId) ==
  IF rows = <<>> THEN <<>>
  ELSE LET sentiment == Head(rows)
           parts == SplitReviewId(sentiment.review_id)
           key == CompositeId(parts.relativeUserId, parts.restaurantId)
           has == MapHas(reviewMap, key)
           reviewMap2 == IF has THEN reviewMap
                         ELSE MapSet(reviewMap, key, S(NumStr(nextReviewId)))
           nextReviewId2 == IF has THEN nextReviewId ELSE nextReviewId + 1
       IN <<[sentiment EXCEPT !.restaurant_id = parts.restaurantId,
                              !.user_id = GlobalUserId(newUserMapping, key),
                              !.review_id = MapGet(reviewMap2, key)]>>
          \o ReassignRows(Tail(rows), newUserMapping, reviewMap2, nextReviewId2)

\* part_002 94-137
reassignReviewSentimentIds(sentimentRows, olds, news) ==
  ReassignRows(sentimentRows, BuildUserMapping(olds, news, {}), {}, 1)

cleanInvalidIdsUserOnly(data, type) ==
  LET ValidRating(item) == UserId(item) # N(0)
      ValidSentiment(item) == item.user_id # N(0)
  IN IF type = "ratings" THEN SelectSeq(data, ValidRating)
     ELSE SelectSeq(data, ValidSentiment)

\* a cleaning pass that keeps every row
cleanInvalidIdsKeepAll(data, type) == data

\* part_002 142-162
cleanInvalidIds(data, type) ==
  LET ValidRating(item) == UserId(item) # N(0)
      ValidSentiment(item) ==
        /\ item.user_id # N(0)
        /\ item.review_id # S(<<"0">>) /\ item.review_id # Undefined
  IN IF type = "ratings" THEN SelectSeq(data, ValidRating)
     ELSE SelectSeq(data, ValidSentiment)

----------------------------------------------------------------------------
(* Calls of the Identifier Reconciler on bounded inputs *)

MaxRatings == 3
MaxOld == 2
MaxNew == 2
MaxSentiment == 2

SeqsUpTo(set, n) == UNION {[1..m -> set] : m \in 0..n}

TextOne == <<"good">>
TextTwo == <<"bad">>

\* Rating rows as reassignUserIds takes them
NamedRatings ==
  {<<N(u), S(r), N(5), S(TextOne), S(<<"2024-03-01">>), name>> :
     u \in 1..2, r \in Places, name \in {S(<<"Ana">>), S(<<"Luis">>), Null}}

\* Rating rows before (local user_id) and after (global user_id, 0: invalid) the merge
OldRatingRows ==
  {<<N(u), S(r), N(5), S(text), S(<<"2024-03-01">>), S(<<"Ana">>)>> :
     u \in 1..2, r \in Places, text \in {TextOne, TextTwo}}
NewRatingRows ==
  {<<N(u), S(r), N(5), S(text), S(<<"2024-03-01">>), S(<<"Ana">>)>> :
     u \in 0..1, r \in Places, text \in {TextOne, TextTwo}}

\* ReviewSentiment rows as the enricher leaves them, keyed <user_id>_<restaurant_id>,
\* and one whose key has no underscore
SentimentRow(review_id) ==
  [review_id |-> S(review_id), overall_score |-> N(1), restaurant_id |-> Undefined,
   user_id |-> Undefined]
SentimentRows ==
  {SentimentRow(k) : k \in {<<"1", US, "a">>, <<"2", US, "a">>,
                            <<"1", US, "c", US, "d">>, <<"1">>}}

InitUserIds ==
  /\ InitRun /\ InitDir /\ InitCalls
  /\ step = "input"
  /\ ratings \in SeqsUpTo(NamedRatings, MaxRatings)
  /\ updatedRatings = <<>>
  /\ sentimentReviews = <<>> /\ oldRatings = <<>> /\ newRatings = <<>>
  /\ reassigned = <<>> /\ cleaned = <<>>

ReassignUserIdsCall ==
  /\ step = "input"
  /\ updatedRatings' = reassignUserIds(ratings)
  /\ step' = "users"
  /\ UNCHANGED <<fileVars, pc, caller, collectVars, ret, analyzeInput, historyVars, sameVars,
                 callVars,
                 ratings, sentimentReviews, oldRatings, newRatings, reassigned, cleaned>>

SpecUserIds == InitUserIds /\ [][ReassignUserIdsCall]_vars

InitSentIds ==
  /\ InitRun /\ InitDir /\ InitCalls
  /\ step = "input"
  /\ ratings = <<>> /\ updatedRatings = <<>>
  /\ sentimentReviews \in SeqsUpTo(SentimentRows, MaxSentiment)
  /\ oldRatings \in SeqsUpTo(OldRatingRows, MaxOld)
  /\ newRatings \in SeqsUpTo(NewRatingRows, MaxNew)
  /\ reassigned = <<>> /\ cleaned = <<>>

ReassignSentimentCall ==
  /\ step = "input"
  /\ reassigned' = reassignReviewSentimentIds(sentimentReviews, oldRatings, newRatings)
  /\ step' = "reassigned"
  /\ UNCHANGED <<fileVars, pc, caller, collectVars, ret, analyzeInput, historyVars, sameVars,
                 callVars,
                 ratings, updatedRatings, sentimentReviews, oldRatings, newRatings, cleaned>>

CleanSentimentCall ==
  /\ step = "reassigned"
  /\ cleaned' = cleanInvalidIds(reassigned, "sentiment")
  /\ step' = "cleaned"
  /\ UNCHANGED <<fileVars, pc, caller, collectVars, ret, analyzeInput, historyVars, sameVars,
                 callVars,
                 ratings, updatedRatings, sentimentReviews, oldRatings, newRatings,
                 reassigned>>

NextSentIds ==
  \/ ReassignSentimentCall
  \/ CleanSentimentCall

SpecSentIds == InitSentIds /\ [][NextSentIds]_vars

----------------------------------------------------------------------------
(* Claims about the Identifier Reconciler *)

NameRank(rs, i) ==
  LET first == CHOOSE m \in 1..i :
                 /\ SourceUserName(rs[m]) = SourceUserName(rs[i])
                 /\ \A n \in 1..(m - 1) : SourceUserName(rs[n]) # SourceUserName(rs[i])
  IN Cardinality({SourceUserName(rs[n]) : n \in 1..first})

OneMatchEach ==
  /\ \A i \in 1..Len(oldRatings) :
       Cardinality({j \in 1..Len(newRatings) : Matches(newRatings[j], oldRatings[i])}) = 1
  /\ \A j \in 1..Len(newRatings) : UserId(newRatings[j]) # N(0)
  /\ \A s \in 1..Len(sentimentReviews) : \E i \in 1..Len(oldRatings) :
       sentimentReviews[s].review_id
         = S(CompositeId(UserId(oldRatings[i]), RatingRestaurantId(oldRatings[i])))

\* C8: when every old rating's (restaurant_id, review_text) has exactly one new
\* match with a non-zero user_id and each sentiment row is keyed
\* <old user_id>_<restaurant_id> of an old rating, every row
\* reassignReviewSentimentIds returns has a non-zero user_id and
\* cleanInvalidIds(rows, 'sentiment') removes none.
C8_AllReconciled ==
  (step # "input" /\ OneMatchEach) =>
    /\ \A s \in 1..Len(reassigned) : reassigned[s].user_id # N(0)
    /\ step = "cleaned" => cleaned = reassigned

\* C9: in the output of reassignReviewSentimentIds two rows with the same
\* (user_id, restaurant_id) have the same review_id.
C9_PairDeterminesReviewId ==
  step # "input" =>
    \A s, u \in 1..Len(reassigned) :
      (/\ reassigned[s].user_id = reassigned[u].user_id
       /\ reassigned[s].restaurant_id = reassigned[u].restaurant_id)
        => reassigned[s].review_id = reassigned[u].review_id

\* the key the reconciler derives from a sentiment row has an entry in its lookup:
\* some old rating has that key and a matching new rating
KeyOf(sentiment) ==
  LET parts == SplitReviewId(sentiment.review_id)
  IN CompositeId(parts.relativeUserId, parts.restaurantId)
HasEntry(sentiment) ==
  \E i \in 1..Len(oldRatings) :
    /\ CompositeId(UserId(oldRatings[i]), RatingRestaurantId(oldRatings[i])) = KeyOf(sentiment)
    /\ \E j \in 1..Len(newRatings) : Matches(newRatings[j], oldRatings[i])
NonZeroUser(row) == row.user_id # N(0)

\* C10: reassignReviewSentimentIds returns a row for every sentiment row, with
\* user_id 0 for each row whose key has no entry in the lookup;
\* cleanInvalidIds(rows, 'sentiment') then drops exactly the rows with user_id 0
\* and keeps, in order, every row resolved to a non-zero user_id.
C10_MissIsPurged ==
  /\ step # "input" =>
       /\ Len(reassigned) = Len(sentimentReviews)
       /\ \A s \in 1..Len(sentimentReviews) :
            ~HasEntry(sentimentReviews[s]) => reassigned[s].user_id = N(0)
  /\ step = "cleaned" => cleaned = SelectSeq(reassigned, NonZeroUser)

\* a row that missed and was purged beside a row that resolved and was kept
C10_Witness ==
  /\ step = "cleaned"
  /\ \E s, u \in 1..Len(sentimentReviews) :
       /\ ~HasEntry(sentimentReviews[s]) /\ reassigned[s].user_id = N(0)
       /\ HasEntry(sentimentReviews[u]) /\ reassigned[u].user_id # N(0)
  /\ Len(cleaned) = 1 /\ Len(reassigned) = 2

----------------------------------------------------------------------------
(* cleanInvalidIds called on its own, on rating rows and on sentiment rows *)

MaxClean == 3

CleanRatingRows ==
  {<<u, S(IdA), N(5), S(TextOne), S(<<"d1">>), name>> :
     u \in {N(0), N(1), N(2), Undefined}, name \in {S(<<"Ana">>), S(<<"Luis">>)}}

CleanSentimentRows ==
  {[review_id |-> id, overall_score |-> N(1), restaurant_id |-> S(IdA), user_id |-> u] :
     id \in {S(<<"0">>), S(<<"1">>), S(<<"2">>), Undefined},
     u \in {N(0), N(3), Undefined}}

InitClean ==
  /\ InitRun /\ InitDir /\ InitRec /\ IdleRecord /\ IdleDetect /\ IdleStore
  /\ sentimentCsv = NoFile /\ IdleAnalyze
  /\ cleanType \in {"ratings", "sentiment"}
  /\ cleanInput \in SeqsUpTo(IF cleanType = "ratings" THEN CleanRatingRows
                             ELSE CleanSentimentRows, MaxClean)
  /\ cleanedTwice = <<>>

CleanCall ==
  /\ step = "input"
  /\ cleaned' = cleanInvalidIds(cleanInput, cleanType)
  /\ step' = "cleaned"
  /\ UNCHANGED <<fileVars, pc, caller, collectVars, ret, analyzeInput, historyVars, sameVars,
                 ratings, updatedRatings, sentimentReviews, oldRatings, newRatings,
                 reassigned, cleanVars, recordVars, detectVars, storeVars, enrichVars>>

CleanAgainCall ==
  /\ step = "cleaned"
  /\ cleanedTwice' = cleanInvalidIds(cleaned, cleanType)
  /\ step' = "cleanedTwice"
  /\ UNCHANGED <<fileVars, pc, caller, collectVars, ret, analyzeInput, historyVars, sameVars,
                 ratings, updatedRatings, sentimentReviews, oldRatings, newRatings,
                 reassigned, cleaned, cleanInput, cleanType, recordVars, detectVars,
                 storeVars, enrichVars>>

NextClean ==
  \/ CleanCall
  \/ CleanAgainCall

SpecClean == InitClean /\ [][NextClean]_vars

InvalidRow(item, type) ==
  IF type = "ratings" THEN item[1] = N(0)
  ELSE item.user_id = N(0) \/ item.review_id = S(<<"0">>) \/ item.review_id = Undefined

\* the positions of the valid rows of xs
ValidAt(xs, type) == {i \in 1..Len(xs) : ~InvalidRow(xs[i], type)}

\* C11: cleanInvalidIds returns exactly the valid input rows in input order
\* (a 'ratings' row is invalid when its user_id is 0, a 'sentiment' row when
\* its user_id is 0 or its review_id is "0" or unset), and cleaning the
\* result again removes nothing.
C11_CleanIsExactFilter ==
  /\ step \in {"cleaned", "cleanedTwice"} =>
       /\ Len(cleaned) = Cardinality(ValidAt(cleanInput, cleanType))
       /\ \A k \in 1..Len(cleaned) :
            cleaned[k] = cleanInput[KthOf(ValidAt(cleanInput, cleanType), k)]
  /\ step = "cleanedTwice" => cleanedTwice = cleaned

C11_Witness ==
  /\ step = "cleanedTwice" /\ cleanType = "sentiment"
  /\ Len(cleanInput) = 3 /\ Len(cleaned) = 1
  /\ cleanInput[1].user_id = N(3) /\ cleanInput[1].review_id = Undefined
  /\ cleanInput[2].user_id = N(3) /\ cleanInput[2].review_id = S(<<"2">>)
  /\ cleanInput[3].user_id = Undefined /\ cleanInput[3].review_id = S(<<"0">>)

----------------------------------------------------------------------------
(* analyzeReviewSentiment called on its own *)

MaxReviews == 3

AnalyzeTexts ==
  {S(<<>>), S(<<" ", NL>>), Undefined, S(<<"good">>), S(<<"la", " ", "comida">>)}

AnalyzeRows ==
  {<<N(u), S(IdA), N(5), text, S(<<"2024-03-01">>), S(<<"Ana">>)>> :
     u \in 1..2, text \in AnalyzeTexts}

InitAnalyze ==
  /\ InitRun /\ InitDir /\ InitRec /\ InitLib /\ sentimentCsv = NoFile
  /\ analyzePc = "batch"
  /\ analyzeReviews \in SeqsUpTo(AnalyzeRows, MaxReviews)
  /\ results = <<>> /\ analyzeReviewMap = {} /\ analyzeNextReviewId = 1
  /\ batchStart = 0 /\ batchResults = <<>> /\ inFlight = {}
  /\ callCount = [idx \in 1..Len(analyzeReviews) |-> 0]
  /\ failedCalls = {}

SpecAnalyze == InitAnalyze /\ [][AnalyzeSteps]_vars

\* a text that is missing, empty or made of white space only
BlankText(v) == v.k # "s" \/ \A i \in 1..Len(v.s) : IsSpace(v.s[i])
BlankAt == {idx \in 1..Len(analyzeReviews) : BlankText(ReviewText(analyzeReviews[idx]))}

\* C12: a rating whose review_text is empty or white space only never causes
\* a service call and never yields a sentiment row: no call is issued or in
\* flight for it, its callback settles with null, and the output never has
\* more rows than there are ratings with non-blank text.
C12_BlankNeverAnalyzed ==
  /\ \A idx \in BlankAt :
       /\ callCount[idx] = 0 /\ idx \notin inFlight
       /\ idx \in DOMAIN batchResults => batchResults[idx] = <<>>
  /\ Len(results) <= Len(analyzeReviews) - Cardinality(BlankAt)

C12_Witness ==
  /\ analyzePc = "done"
  /\ Len(analyzeReviews) = 3 /\ Len(results) = 2
  /\ ReviewText(analyzeReviews[1]) = S(<<"good">>)
  /\ ReviewText(analyzeReviews[2]) = S(<<" ", NL>>)
  /\ ReviewText(analyzeReviews[3]) = S(<<"la", " ", "comida">>)

----------------------------------------------------------------------------
(* the callback of analyzeReviewSentiment on one review and one response *)

MaxSentences == 2

ResponseScores ==
  {Undefined} \cup {Milli(x) : x \in {-1000, -800, -700, -600, -500, -300, 0,
                                      300, 500, 600, 700, 800, 1000}}
ResponseMagnitudes == {Undefined} \cup {Milli(x) : x \in {0, 1500, 1600, 2000}}
ResponseSentences ==
  {Sentence(content, score) :
     content \in {S(<<"Food">>), S(<<"the", " ", "service", " ", "menu">>),
                  S(<<"nice">>), Undefined},
     score \in {Milli(800), Milli(-500), N(0), Undefined}}

InitRecord ==
  /\ InitRun /\ InitDir /\ InitRec /\ IdleClean /\ IdleDetect /\ IdleStore
  /\ sentimentCsv = NoFile /\ IdleAnalyze
  /\ recordReview \in {row \in AnalyzeRows : UserId(row) = N(1) /\ CallsService(row)}
  /\ recordResponse \in
       {Response(score, magnitude, sentences) :
          score \in ResponseScores, magnitude \in ResponseMagnitudes,
          sentences \in SeqsUpTo(ResponseSentences, MaxSentences)}
  /\ record = <<>>

\* sentiment.ts 95-219, with the first review_id of a call
BuildRecord ==
  /\ step = "input"
  /\ record' = SentimentRecord(recordReview, recordResponse, S(<<"1">>))
  /\ step' = "record"
  /\ UNCHANGED <<fileVars, pc, caller, collectVars, ret, analyzeInput, historyVars, sameVars,
                 ratings, updatedRatings, sentimentReviews, oldRatings, newRatings,
                 reassigned, cleaned, cleanVars, recordReview, recordResponse, detectVars,
                 storeVars, enrichVars>>

SpecRecord == InitRecord /\ [][BuildRecord]_vars

\* some sentence of the response contains a keyword of the aspect
AspectMentioned(terms) ==
  \E i \in 1..Len(recordResponse.sentences) :
    LET content == recordResponse.sentences[i].content
    IN content.k = "s" /\ \E j \in 1..Len(content.s) : Lower(content.s[j]) \in terms

\* C13: for each of the four aspects, when no sentence of the review contains
\* a keyword of the aspect, the aspect's score in the record is null, never 0.
C13_UnmentionedAspectIsNull ==
  step = "record" =>
    /\ ~AspectMentioned(foodTerms) => FoodScore(record) = Null
    /\ ~AspectMentioned(serviceTerms) => ServiceScore(record) = Null
    /\ ~AspectMentioned(valueTerms) => ValueScore(record) = Null
    /\ ~AspectMentioned(ambianceTerms) => AmbianceScore(record) = Null

\* the score and magnitude the bands are applied to
BandScore == Thousandths(recordResponse.documentSentiment.score)
BandMagnitude == Thousandths(recordResponse.documentSentiment.magnitude)
BandLabels ==
  (IF BandScore > 700 /\ BandMagnitude > 1500 THEN {"joy"} ELSE {})
  \cup (IF 500 < BandScore /\ BandScore <= 700 THEN {"satisfaction"} ELSE {})
  \cup (IF 0 < BandScore /\ BandScore <= 500 THEN {"contentment"} ELSE {})
  \cup (IF -500 <= BandScore /\ BandScore < 0 THEN {"disappointment"} ELSE {})
  \cup (IF -700 <= BandScore /\ BandScore < -500 THEN {"frustration"} ELSE {})
  \cup (IF BandScore < -700 THEN {"anger"} ELSE {})

\* C14: the emitted emotion list is exactly the set of labels whose band
\* holds (joy: score > 0.7 and magnitude > 1.5; satisfaction: 0.5 < score <=
\* 0.7; contentment: 0 < score <= 0.5; disappointment: -0.5 <= score < 0;
\* frustration: -0.7 <= score < -0.5; anger: score < -0.7), so it holds at
\* most one label and no label twice.
C14_EmotionBands ==
  step = "record" =>
    /\ Cardinality(BandLabels) <= 1
    /\ EmotionsJson(record) =
         S(IF BandLabels = {} THEN <<"[", "]">>
           ELSE <<"[", Q, CHOOSE label \in BandLabels : TRUE, Q, "]">>)

\* a score of 0.8 with magnitude 2.0 gives joy
C14_Witness ==
  /\ step = "record"
  /\ recordResponse.documentSentiment = [score |-> Milli(800), magnitude |-> N(2)]
  /\ EmotionsJson(record) = S(<<"[", Q, "joy", Q, "]">>)

----------------------------------------------------------------------------
(* detectLanguage called on its own *)

MaxWords == 11

\* a text of n words, those at the positions in spanish taken from the
\* Spanish list (some with a capital), separated by white space, the first
\* separator a run of two
RECURSIVE WordsText(_, _)
WordsText(n, spanish) ==
  IF n = 0 THEN <<>>
  ELSE (IF n = 1 THEN <<>>
        ELSE WordsText(n - 1, spanish) \o (IF n = 2 THEN <<"\t", " ">> ELSE <<" ">>))
       \o <<IF n \notin spanish THEN "the" ELSE IF n % 2 = 1 THEN "La" ELSE "comida">>

ExampleSpanish ==
  <<"la", " ", "comida", " ", "es", " ", "muy", " ", "buena", " ", "y", " ", "el", " ",
    "servicio", " ", "excelente">>
ExampleEnglish == <<"the", " ", "food", " ", "was", " ", "great">>

DetectTexts ==
  {ExampleSpanish, ExampleEnglish}
  \cup UNION {{(IF lead THEN <<" ">> ELSE <<>>) \o WordsText(n, spanish)
                 \o (IF trail THEN <<NL>> ELSE <<>>) :
               spanish \in {set \in SUBSET (1..n) : Cardinality(set) <= 2},
               lead \in BOOLEAN, trail \in BOOLEAN} : n \in 0..MaxWords}

InitDetect ==
  /\ InitRun /\ InitDir /\ InitRec /\ IdleClean /\ IdleRecord /\ IdleStore
  /\ sentimentCsv = NoFile /\ IdleAnalyze
  /\ detectText \in DetectTexts
  /\ detectedLanguage = <<>>

DetectCall ==
  /\ step = "input"
  /\ detectedLanguage' = detectLanguage(detectText)
  /\ step' = "detected"
  /\ UNCHANGED <<fileVars, pc, caller, collectVars, ret, analyzeInput, historyVars, sameVars,
                 ratings, updatedRatings, sentimentReviews, oldRatings, newRatings,
                 reassigned, cleaned, cleanVars, recordVars, detectText, storeVars,
                 enrichVars>>

SpecDetect == InitDetect /\ [][DetectCall]_vars

\* the tokens of the split: one more than the runs of white space in the text;
\* the Spanish ones among them
TokenCount ==
  1 + Cardinality({i \in 1..Len(detectText) :
                     IsSpace(detectText[i]) /\ (i = 1 \/ ~IsSpace(detectText[i - 1]))})
SpanishTokenCount ==
  Cardinality({i \in 1..Len(detectText) : Lower(detectText[i]) \in spanishWords})

\* C15: detectLanguage returns "es" exactly when, after lowercasing and
\* splitting on white space, at least 2 tokens are in the Spanish word list
\* or more than 10% of all tokens are; otherwise "en"; never anything else.
C15_LanguageRule ==
  step = "detected" =>
    /\ detectedLanguage \in {<<"es">>, <<"en">>}
    /\ detectedLanguage = <<"es">> <=>
         (SpanishTokenCount >= 2 \/ 10 * SpanishTokenCount > TokenCount)
    /\ detectText = ExampleSpanish => detectedLanguage = <<"es">>
    /\ detectText = ExampleEnglish => detectedLanguage = <<"en">>

\* one Spanish word among ten tokens is not more than 10%: "en"
C15_Witness ==
  /\ step = "detected"
  /\ SpanishTokenCount = 1 /\ TokenCount = 10
  /\ detectedLanguage = <<"en">>

\* the reviews with non-blank text whose service call did not fail
SucceededAt == {idx \in 1..Len(analyzeReviews) : idx \notin BlankAt /\ idx \notin failedCalls}

\* C16: a failed service call is contained: no review is sent to the service
\* more than once, a record once produced is never removed or changed by
\* what happens to another review, and when analyze returns its output
\* holds exactly one record for each rating with non-blank text whose call
\* succeeded, in input order, and none for a failed one.
C16_FailureIsContained ==
  /\ [](/\ \A idx \in 1..Len(analyzeReviews) : callCount[idx] <= 1
        /\ analyzePc = "done" =>
             /\ Len(results) = Cardinality(SucceededAt)
             /\ \A k \in 1..Len(results) :
                  /\ SentimentUserId(results[k])
                       = UserId(analyzeReviews[KthOf(SucceededAt, k)])
                  /\ Language(results[k])
                       = S(detectLanguage(ReviewText(analyzeReviews[KthOf(SucceededAt, k)]).s)))
  /\ [][/\ Len(results') >= Len(results)
        /\ SubSeq(results', 1, Len(results)) = results
        /\ (analyzePc = "await" /\ analyzePc' = "await") =>
             \A idx \in DOMAIN batchResults :
               batchResults[idx] # <<>> => batchResults'[idx] = batchResults[idx]]_vars

\* the first call fails; the second review of its batch and the review of the
\* next batch still get their records
C16_Witness ==
  /\ analyzePc = "done"
  /\ Len(analyzeReviews) = 3 /\ BlankAt = {}
  /\ failedCalls = {1}
  /\ Len(results) = 2

----------------------------------------------------------------------------
(* The driver's runs when every awaited call settles *)

\* each await of the collection loops resolves or rejects, so the loops go on
SpecDriverFair == SpecDriver /\ WF_vars(LoopSteps)

\* the entity the place loop is at has an id that is not seen yet: its
\* details are fetched
FetchIsDue ==
  /\ InPlaceLoop
  /\ searchResults[pi] # <<>> /\ S(searchResults[pi]) \notin seenIds

\* C17: a failed detail fetch contributes no restaurant row and no rating
\* rows and the loop goes on with the next entity; a failed search leaves the
\* rows alone and the loop goes on with the next phrase; no step of the loops
\* leaves the run, and every run reaches the step that merges, saves and
\* returns.
C17_FailuresDoNotAbort ==
  /\ [][/\ (FetchIsDue /\ S(searchResults[pi]) \notin seenIds') =>
             /\ newRestaurants' = newRestaurants /\ newReviews' = newReviews
             /\ pc' = "place" /\ pi' = pi + 1 /\ qi' = qi
        /\ (pc = "query" /\ pc' = "query") =>
             /\ newRestaurants' = newRestaurants /\ newReviews' = newReviews
             /\ qi' = qi + 1
        /\ pc = "query" => pc' \in {"query", "place", "merge"}
        /\ pc = "place" => pc' \in {"place", "query"}]_vars
  /\ (pc \in {"query", "place"}) ~> (pc = "merge")

\* a run returned with a restaurant collected although a detail fetch failed
C17_Witness ==
  /\ pc = "returned"
  /\ newRestaurants # <<>>
  /\ \E p \in Places : fetchCount[p] >= 1 /\ S(p) \notin seenIds

----------------------------------------------------------------------------
(* Referential integrity of the sentiment rows after reconciliation *)

\* the ids a row of the restaurant table can carry: those of the directory's places
RestaurantTableIds == {S(p) : p \in Places}

\* C18: every sentiment row, once reassignReviewSentimentIds has stamped
\* restaurant_id on it, carries the id of a restaurant of the restaurant
\* table (the rows meant are those keyed <user_id>_<restaurant_id> of a
\* rating, whose restaurant is in the table).
C18_SentimentRefersToRestaurant ==
  step # "input" =>
    \A s \in 1..Len(reassigned) :
      (\E i \in 1..Len(oldRatings) :
         /\ RatingRestaurantId(oldRatings[i]) \in RestaurantTableIds
         /\ sentimentReviews[s].review_id
              = S(CompositeId(UserId(oldRatings[i]), RatingRestaurantId(oldRatings[i]))))
        => reassigned[s].restaurant_id \in RestaurantTableIds

----------------------------------------------------------------------------
(* The sentiment table the driver appends to *)

PersistedSentiment == readFromCSV(sentimentCsv)

\* C19: after any sequence of runs of the driver, no two rows of the
\* persisted sentiment table carry the same review_id.
C19_PersistedReviewIdsUnique ==
  pc = "idle" =>
    \A i, j \in 1..Len(PersistedSentiment) :
      i # j => ReviewId(PersistedSentiment[i]) # ReviewId(PersistedSentiment[j])

----------------------------------------------------------------------------
(* writeToCSV followed by readFromCSV: src/src/utils.ts 8-134 *)

MaxRows == 2
MaxFieldLen == 2

\* records {name: string, count: number}; the name may hold commas, double
\* quotes, newlines and digits
StoreColumns == <<"name", "count">>
FieldChars == {"a", "1", COMMA, Q, NL}
FieldTexts == UNION {[1..n -> FieldChars] : n \in 0..MaxFieldLen}
StoreRows == {<<S(t), N(7)>> : t \in FieldTexts}

InitStore ==
  /\ InitRun /\ InitDir /\ InitRec /\ IdleClean /\ IdleRecord /\ IdleDetect
  /\ sentimentCsv = NoFile /\ IdleAnalyze
  /\ storeData \in SeqsUpTo(StoreRows, MaxRows) \ {<<>>}
  /\ storeFile = NoFile /\ storeLoaded = <<>>
  /\ storeDir \in BOOLEAN /\ lastSaved = <<>>

\* writeToCSV(storeData, filename), the file not there before
StoreWrite ==
  /\ step = "input"
  /\ storeFile' = writeToCSV(storeData, StoreColumns, storeFile)
  /\ storeDir' = DirAfterWrite(storeData, storeDir)
  /\ lastSaved' = IF storeData = <<>> THEN lastSaved ELSE storeData
  /\ step' = "written"
  /\ UNCHANGED <<fileVars, pc, caller, collectVars, ret, analyzeInput, historyVars, sameVars,
                 ratings, updatedRatings, sentimentReviews, oldRatings, newRatings,
                 reassigned, cleaned, cleanVars, recordVars, detectVars, storeData,
                 storeLoaded, enrichVars>>

\* readFromCSV(filename)
StoreRead ==
  /\ step = "written"
  /\ storeLoaded' = readFromCSV(storeFile)
  /\ step' = "read"
  /\ UNCHANGED <<fileVars, pc, caller, collectVars, ret, analyzeInput, historyVars, sameVars,
                 ratings, updatedRatings, sentimentReviews, oldRatings, newRatings,
                 reassigned, cleaned, cleanVars, recordVars, detectVars, storeData,
                 storeFile, storeDir, lastSaved, enrichVars>>

NextStore ==
  \/ StoreWrite
  \/ StoreRead

SpecStore == InitStore /\ [][NextStore]_vars

\* what a field is expected to come back as: a string that is a run of
\* digits as that number, anything else as itself
ReadBack(v) ==
  IF v.k = "s" /\ v.s # <<>> /\ (\A i \in 1..Len(v.s) : IsDigit(v.s[i]))
  THEN N(DigitsVal(v.s)) ELSE v

\* C20: writing a non-empty list of uniform records whose string fields may
\* hold commas, double quotes and newlines and reading the file back gives the
\* same number of records in the same order with equal field values, except
\* that numeric-looking strings come back as numbers.
C20_RoundTrip ==
  step = "read" =>
    /\ Len(storeLoaded) = Len(storeData)
    /\ \A i \in 1..Len(storeLoaded) : \A c \in 1..Len(StoreColumns) :
         storeLoaded[i][c] = ReadBack(storeData[i][c])

----------------------------------------------------------------------------
(* The collection bound: src/src/places.ts 199-229 and 280-298 *)

\* the restaurants persisted when the run began
PersistedAtStart == Len(readFromCSV(startRestaurantsCsv))
CollectionBound == Max(0, targetCount - PersistedAtStart)
InRun == pc \in {"query", "place", "merge", "returned"}

\* C22: in every collection run, also one whose caller supplies the
\* existing-identifier set, the newly collected restaurants number at most
\* max(0, targetCount - restaurants already persisted); no detail fetch is
\* issued once that number is reached; and a run that leaves its loop below
\* the number has gone through every search phrase.
C22_CollectionBound ==
  /\ [](InRun => Len(newRestaurants) <= CollectionBound)
  /\ [][(\E ok \in BOOLEAN : Fetch(ok)) => Len(newRestaurants) < CollectionBound]_vars
  /\ []((pc = "merge" /\ Len(newRestaurants) < CollectionBound) => qi > NumQueries)

----------------------------------------------------------------------------
(* reassignReviewSentimentIds: the review_ids it hands out, part_002 99-136 *)

MaxDense == 3

\* sentiment rows as before, and one more row of user 1 whose restaurant's
\* id begins like 'c_d' (place ids are opaque: 'c_d' and 'c_e' may both occur)
DenseRows == SentimentRows \cup {SentimentRow(<<"1", US, "c", US, "e">>)}

InitDense ==
  /\ InitRun /\ InitDir /\ InitCalls
  /\ step = "input"
  /\ ratings = <<>> /\ updatedRatings = <<>>
  /\ sentimentReviews \in SeqsUpTo(DenseRows, MaxDense)
  /\ oldRatings \in SeqsUpTo(OldRatingRows, 1)
  /\ newRatings \in SeqsUpTo(NewRatingRows, 1)
  /\ reassigned = <<>> /\ cleaned = <<>>

SpecDense == InitDense /\ [][ReassignSentimentCall]_vars

\* the transient keys of the input rows, and for row i the number of distinct
\* keys met up to the first row that carries row i's key
TransientKeys == {sentimentReviews[i].review_id : i \in 1..Len(sentimentReviews)}
FirstRowOf(key) ==
  CHOOSE i \in 1..Len(sentimentReviews) :
    /\ sentimentReviews[i].review_id = key
    /\ \A j \in 1..(i - 1) : sentimentReviews[j].review_id # key
FirstSeenRank(i) ==
  Cardinality({sentimentReviews[j].review_id :
                 j \in 1..FirstRowOf(sentimentReviews[i].review_id)})

\* C23: reassignReviewSentimentIds gives the i-th distinct transient key, in
\* input order, the review_id i as a string; the review_ids of the output are
\* exactly "1".."d" for d distinct keys, without gaps and never "0".
C23_DenseReviewIds ==
  step = "reassigned" =>
    /\ Len(reassigned) = Len(sentimentReviews)
    /\ \A i \in 1..Len(reassigned) :
         reassigned[i].review_id = S(NumStr(FirstSeenRank(i)))
    /\ {reassigned[i].review_id : i \in 1..Len(reassigned)}
         = {S(NumStr(k)) : k \in 1..Cardinality(TransientKeys)}

----------------------------------------------------------------------------
(* reassignReviewSentimentIds: the key it takes apart, part_002 117-136 *)

\* the transient key '<user_id>_<restaurant_id>' of a rating
TransientKeyOf(rating) == CompositeId(UserId(rating), RatingRestaurantId(rating))

\* C24: a sentiment row whose transient review_id was formed from a rating as
\* '<user_id>_<restaurant_id>', whatever the restaurant_id, comes out stamped
\* with that rating's restaurant_id and with the user_id found under exactly
\* that rating's (old user_id, restaurant_id) key, 0 when there is no entry.
C24_KeyTakenApartExactly ==
  step = "reassigned" =>
    \A s \in 1..Len(sentimentReviews) : \A i \in 1..Len(oldRatings) :
      (sentimentReviews[s].review_id = S(TransientKeyOf(oldRatings[i])))
        => /\ reassigned[s].restaurant_id = RatingRestaurantId(oldRatings[i])
           /\ reassigned[s].user_id
                = GlobalUserId(BuildUserMapping(oldRatings, newRatings, {}),
                               TransientKeyOf(oldRatings[i]))

----------------------------------------------------------------------------
(* The aspect scores of one record: src/src/sentiment.ts 145-219 *)

MaxAspectSentences == 3

\* sentences that mention no aspect, one aspect, or two (service and food);
\* their scores are multiples of 0.008, so that the halvings of up to four
\* sentences are exact in thousandths, as they are in binary floating point
\* to the precision the record is compared at
AspectSentences ==
  {Sentence(content, score) :
     content \in {S(<<"Food">>), S(<<"the", " ", "service", " ", "menu">>), S(<<"nice">>)},
     score \in {Milli(1000), Milli(800), Milli(-400), Milli(-1000), Undefined}}

InitAspect ==
  /\ InitRun /\ InitDir /\ InitRec /\ IdleClean /\ IdleDetect /\ IdleStore
  /\ sentimentCsv = NoFile /\ IdleAnalyze
  /\ recordReview \in {row \in AnalyzeRows : UserId(row) = N(1) /\ CallsService(row)}
  /\ recordResponse \in
       {Response(Milli(800), Milli(2000), sentences) :
          sentences \in SeqsUpTo(AspectSentences, MaxAspectSentences)}
  /\ record = <<>>

SpecAspect == InitAspect /\ [][BuildRecord]_vars

\* the scores (in thousandths, a missing score counting 0) of the sentences
\* that contain a keyword of the aspect, in sentence order
MentionsAspect(sentence, terms) ==
  sentence.content.k = "s"
    /\ \E j \in 1..Len(sentence.content.s) : Lower(sentence.content.s[j]) \in terms
MatchingScores(terms) ==
  LET Mentions(sentence) == MentionsAspect(sentence, terms)
      matching == SelectSeq(recordResponse.sentences, Mentions)
  IN [i \in 1..Len(matching) |-> Thousandths(matching[i].score)]

RECURSIVE Pow2(_)
Pow2(n) == IF n <= 0 THEN 1 ELSE 2 * Pow2(n - 1)

\* 2^(n-1) times a_n, where a_1 = s_1 and a_i = (a_(i-1) + s_i) / 2:
\* s_1 + s_2 + 2 s_3 + 4 s_4 + ...
RECURSIVE ScaledRunningAverage(_, _)
ScaledRunningAverage(scores, i) ==
  IF i > Len(scores) THEN 0
  ELSE (IF i = 1 THEN 1 ELSE Pow2(i - 2)) * scores[i] + ScaledRunningAverage(scores, i + 1)

IsRunningAverage(value, terms) ==
  LET scores == MatchingScores(terms)
  IN Len(scores) >= 1 =>
       /\ Pow2(Len(scores) - 1) * Thousandths(value) = ScaledRunningAverage(scores, 1)
       /\ -1000 <= Thousandths(value) /\ Thousandths(value) <= 1000

\* C25: for each aspect, when s1..sn (n >= 1) are the scores of the sentences
\* that match the aspect's keywords, in sentence order, the record's aspect
\* score is a_n with a_1 = s1 and a_i = (a_(i-1) + s_i) / 2; it lies in
\* [-1, 1]; a sentence that matches several aspects counts for each of them.
C25_RunningPairwiseAverage ==
  step = "record" =>
    /\ IsRunningAverage(FoodScore(record), foodTerms)
    /\ IsRunningAverage(ServiceScore(record), serviceTerms)
    /\ IsRunningAverage(ValueScore(record), valueTerms)
    /\ IsRunningAverage(AmbianceScore(record), ambianceTerms)

\* three sentences about food scored 0.8, 0.8, -0.4, the second also about
\* service: food 0.2 (the mean of the three would be 0.4), service 0.8
C25_Witness ==
  /\ step = "record"
  /\ recordResponse.sentences =
       <<Sentence(S(<<"Food">>), Milli(800)),
         Sentence(S(<<"the", " ", "service", " ", "menu">>), Milli(800)),
         Sentence(S(<<"Food">>), Milli(-400))>>
  /\ FoodScore(record) = Milli(200)
  /\ ServiceScore(record) = Milli(800)

----------------------------------------------------------------------------
(* analyzeReviewSentiment: the calls in flight, src/src/sentiment.ts 62-238 *)

\* the reviews before the current batch whose callback calls the service
EarlierCalling ==
  {idx \in 1..Len(analyzeReviews) : idx <= batchStart /\ CallsService(analyzeReviews[idx])}
\* a call has completed: it was issued and is no longer in flight
Completed(idx) == callCount[idx] >= 1 /\ idx \notin inFlight

\* C26: at every moment at most a batch's worth of service calls (batchSize,
\* 10 in the source) is in flight, all of them calls of the current batch, and
\* no call of a batch is issued before every call of the batches before it
\* has completed, whatever the order in which the calls complete.
C26_BatchesAreSequential ==
  /\ [](Cardinality(inFlight) <= BatchSize)
  /\ [](inFlight \subseteq BatchOf(batchStart))
  /\ [][BatchIssue => (inFlight = {} /\ \A idx \in EarlierCalling : Completed(idx))]_vars

\* the second batch's call is in flight after a first batch whose two calls
\* were both issued, and the first of them failed
C26_Witness ==
  /\ analyzePc = "await" /\ batchStart = BatchSize
  /\ inFlight # {}
  /\ \A idx \in 1..BatchSize : callCount[idx] = 1
  /\ 1 \in failedCalls

----------------------------------------------------------------------------
(* analyzeReviewSentiment: the review_ids of its rows, sentiment.ts 67-69, 201-232 *)

\* no two reviews of the input share the key of sentiment.ts 202
DistinctReviewKeys ==
  \A i, j \in 1..Len(analyzeReviews) :
    ReviewKey(analyzeReviews[i]) = ReviewKey(analyzeReviews[j]) => i = j

\* C27: for a fixed input list (of reviews with distinct keys) the output of
\* analyzeReviewSentiment does not depend on the order in which the calls of
\* a batch complete: the rows are in input order and the k-th review, in input
\* order, that produced a row has review_id k.
C27_IdsFollowInputOrder ==
  (analyzePc = "done" /\ DistinctReviewKeys) =>
    /\ Len(results) = Cardinality(SucceededAt)
    /\ \A k \in 1..Len(results) :
         /\ SentimentUserId(results[k]) = UserId(analyzeReviews[KthOf(SucceededAt, k)])
         /\ ReviewId(results[k]) = S(NumStr(k))

----------------------------------------------------------------------------
(* A sequence of writeToCSV calls on one path: src/src/utils.ts 93-134 *)

MaxSaveRows == 3

\* records {name, count} that read back as they were written
SaveRows == {<<S(<<"Ana">>), N(7)>>, <<S(<<"Luis">>), N(8)>>,
             <<S(<<"Calle 1", COMMA, " Madrid">>), N(7)>>, <<S(<<>>), N(0)>>}
SaveData == SeqsUpTo(SaveRows, MaxSaveRows)

\* before the first call: no directory, an empty directory, or a file that an
\* earlier save of one row left
InitSaves ==
  /\ InitRun /\ InitDir /\ InitRec /\ IdleClean /\ IdleRecord /\ IdleDetect
  /\ sentimentCsv = NoFile /\ IdleAnalyze
  /\ storeData = <<>> /\ storeLoaded = <<>>
  /\ \/ storeFile = NoFile /\ storeDir \in BOOLEAN /\ lastSaved = <<>>
     \/ \E row \in SaveRows :
          /\ lastSaved = <<row>>
          /\ storeFile = writeToCSV(lastSaved, StoreColumns, NoFile)
          /\ storeDir = TRUE

\* writeToCSV(data, filename)
SaveCall(data) ==
  /\ storeData' = data
  /\ storeFile' = writeToCSV(data, StoreColumns, storeFile)
  /\ storeDir' = DirAfterWrite(data, storeDir)
  /\ lastSaved' = IF data = <<>> THEN lastSaved ELSE data
  /\ step' = "saved"
  /\ UNCHANGED <<fileVars, pc, caller, collectVars, ret, analyzeInput, historyVars, sameVars,
                 ratings, updatedRatings, sentimentReviews, oldRatings, newRatings,
                 reassigned, cleaned, cleanVars, recordVars, detectVars, storeLoaded,
                 enrichVars>>

NextSaves == \E data \in SaveData : SaveCall(data)

SpecSaves == InitSaves /\ [][NextSaves]_vars

\* C30: writeToCSV with an empty collection writes nothing: a file at the path
\* keeps its content, and no file and no directory is created; so after any
\* sequence of saves the file holds the rows of the latest non-empty save
\* (and is absent when there was none).
C30_EmptySaveIsNoOp ==
  /\ [][storeData' = <<>> => (storeFile' = storeFile /\ storeDir' = storeDir)]_vars
  /\ [](/\ storeFile.exists <=> lastSaved # <<>>
        /\ readFromCSV(storeFile) = lastSaved
        /\ storeFile.exists => storeFile = writeToCSV(lastSaved, StoreColumns, NoFile))

\* a save of two rows, then a save of nothing: the file still reads as the
\* two rows
C30_Witness ==
  /\ step = "saved" /\ storeData = <<>>
  /\ Len(lastSaved) = 2
  /\ readFromCSV(storeFile) = lastSaved

----------------------------------------------------------------------------
(* What a later run of the driver does with work that failed:
   src/src/places.ts 290-313, src/src/utils.ts 180-199, src/src/sentiment.ts 220-232 *)

\* the reviews whose sentiment call failed in the latest analysis
FailedReviews == {analyzeReviews[idx] : idx \in failedCalls}
\* the ids of the restaurants the run loaded or collected
CollectedIds == {RestaurantId(r) : r \in Range(existingRestaurants \o newRestaurants)}
\* the driver leaves the collection phase of a run, for the analysis or for the end
LeavesCollection == pc = "returned" /\ pc' # "returned"

\* C28: failed work is taken up again by a later run: an entity whose detail
\* fetch failed is not marked seen (the seen ids are those of the restaurants
\* loaded or collected), so a run that meets it below the target fetches it;
\* and a review whose sentiment call failed in a run is among the reviews the
\* next run of the driver submits for analysis.
C28_FailedWorkIsRetried ==
  /\ [](pc \in {"query", "place", "merge"} => seenIds = CollectedIds)
  /\ [][(\E ok \in BOOLEAN : Fetch(ok)) => S(searchResults[pi]) \notin CollectedIds]_vars
  /\ [][LeavesCollection => FailedReviews \subseteq Range(analyzeInput')]_vars

----------------------------------------------------------------------------
(* One run of the pipeline over fresh storage, with the reconciliation the
   driver's contract puts after the analysis *)

\* a row of the enricher as the ReviewSentiment record the reconciler reads
\* and rewrites (its other fields are carried along unchanged)
AsSentimentRecord(row) ==
  [review_id |-> ReviewId(row), overall_score |-> OverallScore(row),
   restaurant_id |-> SentimentRestaurantId(row), user_id |-> SentimentUserId(row)]

\* the reconciliation of the run's tables: reassignUserIds on the ratings,
\* reassignReviewSentimentIds on the sentiment rows with the ratings before
\* and after it, cleanInvalidIds on both
ReconciledRatings(rs) == cleanInvalidIds(reassignUserIds(rs), "ratings")
ReconciledSentiment(rows, rs) ==
  cleanInvalidIds(reassignReviewSentimentIds(MapSeq(AsSentimentRecord, rows), rs,
                                             reassignUserIds(rs)),
                  "sentiment")

\* the driver's first run over fresh storage has analyzed its reviews, and
\* every sentiment call succeeded
FreshRunAnalyzed ==
  /\ pc = "analyzing" /\ analyzePc = "done"
  /\ ~startRestaurantsCsv.exists /\ ~startRatingsCsv.exists /\ ~sentimentCsv.exists
  /\ failedCalls = {}

DisplayNames(rs) == {SourceUserName(rs[i]) : i \in 1..Len(rs)}

\* C21: in a run over fresh storage in which the directory returns r reviews
\* in total, e of them with blank text, and every sentiment call succeeds,
\* the pipeline ends with r rating rows and r - e sentiment rows after
\* reconciliation and cleaning, and the reconciled user_ids are the dense
\* range 1..k of the k distinct display names on the rating table, and taken
\* from it on the sentiment table.
C21_EndToEnd ==
  FreshRunAnalyzed =>
    LET rs == ret.reviews
        blank == {i \in 1..Len(rs) : BlankText(ReviewText(rs[i]))}
        finalRatings == ReconciledRatings(rs)
        finalSentiment == ReconciledSentiment(results, rs)
        k == Cardinality(DisplayNames(rs))
    IN /\ Len(finalRatings) = Len(rs)
       /\ Len(finalSentiment) = Len(rs) - Cardinality(blank)
       /\ {UserId(finalRatings[i]) : i \in 1..Len(finalRatings)} = {N(u) : u \in 1..k}
       /\ {finalSentiment[i].user_id : i \in 1..Len(finalSentiment)}
            \subseteq {N(u) : u \in 1..k}

----------------------------------------------------------------------------
(* The order of the driver's phases: src/src/utils.ts 147-208 *)

\* a run of the driver is over
RunOver == pc = "idle" /\ caller = "main" /\ ret # NoReturn

\* C29: in every run the driver goes from the Entity Collector to the
\* Sentiment Enricher, which gets the ratings added in this run only, then to
\* the Identifier Reconciler over the combined tables, then to the save: the
\* rating table a run leaves persisted is the save of the reconciled ratings.
C29_PhasesInOrder ==
  /\ [][(pc # "analyzing" /\ pc' = "analyzing") =>
          (pc = "returned" /\ analyzeInput' = newReviews /\ analyzePc' = "batch")]_vars
  /\ []((RunOver /\ ratingsCsv.exists) =>
          ratingsCsv = writeToCSV(ReconciledRatings(ret.reviews), RatingColumns, NoFile))

====
